---- MODULE Spec2Model ----
(***************************************************************************)
(* Votryx batch-voting control loop: VotryxApp.start_bot / stop_bot /      *)
(* run_bot / run_batch / _prepare_vote_session / _complete_vote and the    *)
(* driver registry (_register_driver / _teardown_driver /                  *)
(* _cleanup_drivers), plus selector resolution (_build_vote_selectors /    *)
(* _locate_vote_button).                                                   *)
(*                                                                         *)
(* Further specifications over the same variables: DrainSpec (the registry *)
(* drain of stop_bot / on_close), WaitSpec (the waits of a session),       *)
(* StateSpec (core.state_manager), ConfigSpec (core.config), AgentsSpec    *)
(* (normalize_user_agents), StartSpec (the checks of start_bot),           *)
(* ObserversSpec (StateManager observers), LogSpec (LogHistory), PathSpec  *)
(* (the candidate configuration files), CountSpec (the error counters of   *)
(* a batch) and WorkersSpec (the run_bot threads of successive start_bot   *)
(* calls).  Spec follows one run_bot thread at a time; threads that        *)
(* overlap are the matter of WorkersSpec.                                  *)
(*                                                                         *)
(* Durations are counted in poll steps of 0.1 s, the unit in which         *)
(* _sleep_with_checks sleeps: a value d stands for d/10 seconds, so        *)
(* int(seconds * 10) is d.                                                 *)
(***************************************************************************)
EXTENDS Integers, Sequences, FiniteSets, TLC

\* ------------------------------------------------------------------ bounds
MaxBatch == 3
MaxParallel == 2
MaxErrorsBound == 2
MaxBackoff == 2
MaxCap == 3
MaxStale == 1
MaxStreak == 4
MaxPause == 3
MaxCustom == 2
MaxClickable == 2
MaxHandles == 2
MaxWaitPolls == 3
MaxWaitSelectors == 2
MaxThreads == 2
MaxCalls == 4
MaxClock == 1
MaxEdits == 1
MaxSaves == 2
MaxAgents == 3
MaxObservers == 3
MaxMutations == 2
MaxEntries == 3
MaxAdds == 5
MaxUnits == 3
MaxWorkers == 3

\* ------------------------------------------------------- program constants
DefaultPause == 30
DefaultBatchSize == 1
DefaultMaxErrors == 3
DefaultParallelWorkers == 2
DefaultBackoff == 50
DefaultBackoffCap == 600
MinPause == 5
JitterSpan == 3
WorkerCap == 10

VARIABLES
    \* settings (VotryxApp attributes written by _update_settings_from_form)
    batch_size, parallel_workers, max_errors,
    backoff_seconds, backoff_cap_seconds, pause_between_votes,
    \* application state
    is_running, stop_event, active_drivers, stale,
    \* run_bot: position and locals
    rb_pc, consecutive_errors, backoff_delay, batch_ok, wait_for, sleep_left,
    \* run_batch: position and locals
    mb_pc, next_submit, successes, failures, cur,
    \* one entry per unit of the current batch
    unit, drv, prof,
    \* the current _complete_vote call: click attempts and retries so far
    clicks, retries,
    \* history of the current batch: teardown calls on its drivers, units whose
    \* click returned, and how the latest click attempt ended
    teardown_calls, voted, last_click,
    \* history: consecutive failed batches and backoff sleeps since the last
    \* ok batch
    failStreak, backoffs,
    \* stopping: whether _sleep_with_checks is inside time.sleep(0.1), the sleep
    \* steps of this run loop that ended after the stop signal was set, and the
    \* drivers torn down by the _cleanup_drivers call that ends run_bot
    sleeping, slept_after_stop, final_teardowns,
    \* where the UI thread is in stop_bot
    ui_pc,
    \* selector resolution: the configured custom selectors, the built
    \* vote_selectors, the selectors that are clickable on the page, which
    \* routine resolves ("app": VotryxApp._locate_vote_button, "session":
    \* VotingSession.locate_vote_button), its position, loop index, last_exc
    \* and result
    custom_selectors, vote_selectors, clickable, locator, loc_pc, loc_idx,
    last_exc, located,
    \* draining the driver registry (stop_bot, on_close, BrowserLifecycleManager):
    \* the registry, the profile directories on disk and temp_root, where each
    \* pool thread is in _prepare_vote_session and whether its profile_dir is
    \* a path, the quit calls each handle received and which of them raised,
    \* and the position of the request: its kind, the _cleanup_drivers calls it
    \* still makes, the snapshot being torn down and the handles that were
    \* registered when the request was made
    mgr_active_drivers, mgr_driver_profiles, mgr_dirs, mgr_root,
    mgr_worker, mgr_profile_dir, mgr_quits, mgr_raised,
    mgr_pc, mgr_request, mgr_left, mgr_todo, mgr_snap,
    \* one suspension point of a vote attempt: which wait it is, whether it is
    \* still waiting, the polls left before its timeout, the selectors still
    \* to try, whether stop_bot's cleanup has quit the driver, and the polls
    \* made with the stop signal set
    wt_kind, wt_pc, wt_left, wt_sel, wt_quit, wt_after_stop,
    \* StateManager: the VotingStatistics objects created so far, which of them
    \* _stats refers to, the call each thread is in and the object it read from
    \* _stats, and the increment_vote / increment_error calls that have returned
    sm_heap, sm_stats, sm_pc, sm_ref, sm_calls,
    \* ConfigurationManager: its config, the content of config_path and of the
    \* temp file of save, the position in save / reload, the content config_path
    \* had when save began, the config a new manager loaded, the edits and saves
    \* made so far, and whether the unlink of the temp file failed
    cfg_config, cfg_file, cfg_temp, cfg_pc, cfg_prev, cfg_loaded, cfg_edits, cfg_saves, cfg_unlink_failed,
    \* normalize_user_agents: its argument, its locals cleaned and seen, the
    \* position of its loop in the argument, and whether it has returned
    ua_agents, ua_cleaned, ua_seen, ua_idx, ua_pc,
    \* start_bot: self.use_selenium_manager, the form and the binaries the last
    \* call found, is_running / the stop signal / the worker thread as they were
    \* when it was called, and how it ended
    use_selenium_manager, st_form, st_env, st_before, st_outcome,
    \* StateManager with observers, one thread: self._observers, self._stats, the
    \* position of a call and of the loop of _notify_observers; of the last
    \* mutation: the observers registered when it was made, the snapshot it
    \* produced, the (observer, snapshot) calls made, whether an observer raised,
    \* whether an observer changed self._observers, how the call ended; and the
    \* number of mutations so far
    ob_observers, ob_stats, ob_pc, ob_idx, ob_start, ob_result, ob_log, ob_raised, ob_changed, ob_outcome, ob_calls,
    \* LogHistory: max_entries, _entries, and every entry added since the history
    \* was made or cleared
    lg_max_entries, lg_entries, lg_added,
    \* ConfigurationManager and its candidate files: whether base_dir is code_dir,
    \* the content at base_dir/config.json (1) and code_dir/config.json (2) now
    \* and when the manager was made, config_path, ignored_config_paths, config,
    \* and the position in the manager's life
    fp_same_dir, fp_files, fp_before, fp_config_path, fp_ignored, fp_config, fp_pc,
    \* the counters of VotryxApp (error_count, failure_count, vote_count), the
    \* units of the batch that failed and that succeeded so far, the position of
    \* the unit in hand, whether its preparation gave a session, and the units
    \* dealt with
    error_count, failure_count, vote_count, ct_failed, ct_succeeded, ct_pc, ct_session, ct_done,
    \* the run_bot threads: self.worker (0 for None), the position of each
    \* thread, the position of the UI thread in stop_bot, and the threads a
    \* stop_bot has signalled
    worker, wk_pc, wk_ui, wk_stopped

vars == <<batch_size, parallel_workers, max_errors,
          backoff_seconds, backoff_cap_seconds, pause_between_votes,
          is_running, stop_event, active_drivers, stale,
          rb_pc, consecutive_errors, backoff_delay, batch_ok, wait_for, sleep_left,
          mb_pc, next_submit, successes, failures, cur,
          unit, drv, prof, clicks, retries, teardown_calls, voted, last_click,
          failStreak, backoffs, sleeping, slept_after_stop, final_teardowns, ui_pc,
          custom_selectors, vote_selectors, clickable, locator, loc_pc, loc_idx,
          last_exc, located,
          mgr_active_drivers, mgr_driver_profiles, mgr_dirs, mgr_root,
          mgr_worker, mgr_profile_dir, mgr_quits, mgr_raised,
          mgr_pc, mgr_request, mgr_left, mgr_todo, mgr_snap,
          wt_kind, wt_pc, wt_left, wt_sel, wt_quit, wt_after_stop,
          sm_heap, sm_stats, sm_pc, sm_ref, sm_calls,
          cfg_config, cfg_file, cfg_temp, cfg_pc, cfg_prev, cfg_loaded, cfg_edits, cfg_saves, cfg_unlink_failed,
          ua_agents, ua_cleaned, ua_seen, ua_idx, ua_pc,
          use_selenium_manager, st_form, st_env, st_before, st_outcome,
          ob_observers, ob_stats, ob_pc, ob_idx, ob_start, ob_result, ob_log, ob_raised, ob_changed, ob_outcome, ob_calls,
          lg_max_entries, lg_entries, lg_added,
          fp_same_dir, fp_files, fp_before, fp_config_path, fp_ignored, fp_config, fp_pc,
          error_count, failure_count, vote_count, ct_failed, ct_succeeded, ct_pc, ct_session, ct_done,
          worker, wk_pc, wk_ui, wk_stopped>>

settingsVars == <<batch_size, parallel_workers, max_errors,
                  backoff_seconds, backoff_cap_seconds, pause_between_votes>>
loopVars == <<consecutive_errors, backoff_delay, batch_ok, wait_for, sleep_left>>
batchVars == <<mb_pc, next_submit, successes, failures, cur>>
histVars == <<failStreak, backoffs>>
clickVars == <<voted, last_click>>
selVars == <<custom_selectors, vote_selectors, clickable, locator, loc_pc, loc_idx,
             last_exc, located>>
appVars == <<settingsVars, is_running, active_drivers, stale, rb_pc, loopVars,
             batchVars, unit, drv, prof, teardown_calls, clicks, retries,
             histVars, clickVars>>
loopState == <<settingsVars, active_drivers, stale, rb_pc, loopVars,
               batchVars, unit, drv, prof, teardown_calls, clicks, retries,
               histVars, clickVars>>
loopRest == <<active_drivers, stale, loopVars, batchVars, unit, drv, prof,
              teardown_calls, clicks, retries, histVars, clickVars>>
mgrVars == <<mgr_active_drivers, mgr_driver_profiles, mgr_dirs, mgr_root,
             mgr_worker, mgr_profile_dir, mgr_quits, mgr_raised,
             mgr_pc, mgr_request, mgr_left, mgr_todo, mgr_snap>>
\* what the steps of the control loop, of a selector resolution and of a
\* registry drain leave alone
stopVars == <<sleeping, slept_after_stop, final_teardowns, ui_pc>>
wtVars == <<wt_kind, wt_pc, wt_left, wt_sel, wt_quit, wt_after_stop>>
smVars == <<sm_heap, sm_stats, sm_pc, sm_ref, sm_calls>>
cfgVars == <<cfg_config, cfg_file, cfg_temp, cfg_pc, cfg_prev, cfg_loaded, cfg_edits, cfg_saves, cfg_unlink_failed>>
uaVars == <<ua_agents, ua_cleaned, ua_seen, ua_idx, ua_pc>>
stVars == <<use_selenium_manager, st_form, st_env, st_before, st_outcome>>
obVars == <<ob_observers, ob_stats, ob_pc, ob_idx, ob_start, ob_result, ob_log, ob_raised, ob_changed, ob_outcome, ob_calls>>
lgVars == <<lg_max_entries, lg_entries, lg_added>>
fpVars == <<fp_same_dir, fp_files, fp_before, fp_config_path, fp_ignored, fp_config, fp_pc>>
ctVars == <<error_count, failure_count, vote_count, ct_failed, ct_succeeded, ct_pc, ct_session, ct_done>>
wkVars == <<worker, wk_pc, wk_ui, wk_stopped>>
compVars == <<selVars, mgrVars, wtVars, smVars, cfgVars, uaVars, stVars, obVars, lgVars, fpVars, ctVars, wkVars>>
sideVars == <<compVars, stopVars>>
selOthers == <<appVars, mgrVars, stopVars, wtVars, smVars, cfgVars, uaVars, stVars, obVars, lgVars, fpVars, ctVars, wkVars>>
mgrOthers == <<loopState, selVars, stopVars, wtVars, smVars, cfgVars, uaVars, stVars, obVars, lgVars, fpVars, ctVars, wkVars>>
wtOthers == <<loopState, selVars, stopVars, mgrVars, smVars, cfgVars, uaVars, stVars, obVars, lgVars, fpVars, ctVars, wkVars>>
smOthers == <<appVars, selVars, mgrVars, stopVars, wtVars, cfgVars, uaVars, stVars, obVars, lgVars, fpVars, ctVars, wkVars>>
cfgOthers == <<appVars, selVars, mgrVars, wtVars, smVars, stopVars, uaVars, stVars, obVars, lgVars, fpVars, ctVars, wkVars>>
uaOthers == <<appVars, selVars, mgrVars, wtVars, smVars, cfgVars, stopVars, stVars, obVars, lgVars, fpVars, ctVars, wkVars>>
stOthers == <<loopRest, selVars, mgrVars, wtVars, smVars, cfgVars, uaVars, stopVars, obVars, lgVars, fpVars, ctVars, wkVars>>
obOthers == <<appVars, selVars, mgrVars, wtVars, smVars, cfgVars, uaVars, stVars, stopVars, lgVars, fpVars, ctVars, wkVars>>
lgOthers == <<appVars, selVars, mgrVars, wtVars, smVars, cfgVars, uaVars, stVars, obVars, stopVars, fpVars, ctVars, wkVars>>
fpOthers == <<appVars, selVars, mgrVars, wtVars, smVars, cfgVars, uaVars, stVars, obVars, lgVars, stopVars, ctVars, wkVars>>
ctOthers == <<appVars, selVars, mgrVars, wtVars, smVars, cfgVars, uaVars, stVars, obVars, lgVars, fpVars, stopVars, wkVars>>
wkOthers == <<loopRest, settingsVars, rb_pc, selVars, mgrVars, wtVars, smVars, cfgVars, uaVars, stVars, obVars, lgVars, fpVars, ctVars, stopVars>>

Min(a, b) == IF a <= b THEN a ELSE b
Max(a, b) == IF a >= b THEN a ELSE b

UnitIds == 0 .. (MaxBatch - 1)
Handles == 1 .. MaxHandles
Threads == 1 .. MaxThreads

\* normalize_user_agents: "len(stripped) < 10"
MinUserAgentLength == 10

\* the keys of a configuration that are told apart: "paths", which
\* _load_config merges on its own, one other key of DEFAULT_CONFIG, and one
\* key DEFAULT_CONFIG does not have
ConfigKeys == {"paths", "batch_size", "extra"}

\* the values set / update are given
ConfigValues == {"number_10", "null", "tuple", "dict_chrome", "set"}

\* ConfigurationManager.DEFAULT_CONFIG
DEFAULT_CONFIG ==
    [k \in ConfigKeys |->
        CASE k = "paths" -> "dict_empty"
          [] k = "batch_size" -> "number_1"
          [] OTHER -> "absent"]

\* a path at which there is no file
NoFile == [kind |-> "missing", data |-> DEFAULT_CONFIG]

\* VotingStatistics(): the defaults of the dataclass
NewStatistics ==
    [vote_count |-> 0, error_count |-> 0, success_count |-> 0, failure_count |-> 0,
     start_time |-> 0, is_running |-> FALSE]
Units == 0 .. (batch_size - 1)

\* ------------------------------------------------------------ driver registry
\* driver_profiles: the registered drivers that own a profile directory
driver_profiles == {i \in active_drivers : prof[i] = "exists"}

\* _teardown_driver for every driver of S: quit (errors swallowed), then
\* _unregister_driver, which discards the profile directory it pops
TeardownDrivers(S) ==
    /\ teardown_calls' = teardown_calls + Cardinality(S \cap UnitIds)
    /\ drv' = [i \in UnitIds |-> IF i \in S THEN "closed" ELSE drv[i]]
    /\ prof' = [i \in UnitIds |->
                  IF i \in S /\ i \in driver_profiles THEN "removed" ELSE prof[i]]
    /\ active_drivers' = active_drivers \ S

\* slip: the registered drivers are left alone
LeaveDrivers == UNCHANGED <<teardown_calls, drv, prof, active_drivers, stale>>

\* _cleanup_drivers: tear down a snapshot of active_drivers, which also holds
\* the drivers earlier batches left registered
CleanupDrivers ==
    /\ TeardownDrivers(active_drivers)
    /\ stale' = 0

\* drivers of the current batch whose unit is over but that are still open
Leaked == {i \in UnitIds : drv[i] = "open" /\ unit[i] \in {"ret_exc", "consumed"}}

\* --------------------------------------------------------------- settings
\* the clamps of _update_settings_from_form
ClampBatch(raw) == Max(1, raw)

\* slip: the error limit is taken as typed
KeepMaxErrors(raw) == raw

\* "max_err = max(1, int(self.max_errors_entry.get()))"
ClampMaxErrors(raw) == Max(1, raw)

ClampParallel(raw) == Max(1, Min(WorkerCap, raw))

\* the checks of _update_settings_from_form that refuse a form
FormValid(pause, backoff, cap) ==
    /\ pause > 0
    /\ backoff > 0 /\ cap > 0
    /\ cap >= backoff

\* the forms start_bot is given: every batch size and worker count with one
\* backoff setting, and every backoff setting with a batch of one unit
FormInputs ==
    [batch : 0 .. MaxBatch, parallel : 0 .. MaxParallel, max_errors : {1},
     backoff : {MaxBackoff}, cap : {MaxCap}, pause : {MaxPause}]
    \cup
    [batch : {1}, parallel : {1}, max_errors : 0 .. MaxErrorsBound,
     backoff : 0 .. MaxBackoff, cap : 0 .. MaxCap, pause : {MaxPause}]

\* the texts the URL field is given: "https://a", "http://a", " http://a ",
\* "ftp://a", "HTTP://a", "a" and the empty text
GoodUrl == <<"h", "t", "t", "p", "s", ":", "/", "/", "a">>
UrlEntries ==
    { GoodUrl,
      <<"h", "t", "t", "p", ":", "/", "/", "a">>,
      <<" ", "h", "t", "t", "p", ":", "/", "/", "a", " ">>,
      <<"f", "t", "p", ":", "/", "/", "a">>,
      <<"H", "T", "T", "P", ":", "/", "/", "a">>,
      <<"a">>,
      <<>> }

\* a form that passes every check of _update_settings_from_form
GoodForm ==
    [numeric |-> TRUE, batch |-> 1, parallel |-> 1, max_errors |-> 1,
     backoff |-> MaxBackoff, cap |-> MaxCap, pause |-> MaxPause,
     url |-> GoodUrl, auto_driver |-> FALSE]

\* both binaries exist and report the same major version, and config.json
\* can be written
GoodEnv ==
    [driver_exists |-> TRUE, chrome_exists |-> TRUE, driver_major |-> 1,
     chrome_major |-> 1, persist_ok |-> TRUE]

\* the states of the binaries and of config.json's directory (major version
\* 0: not read)
StartEnvs ==
    [driver_exists : BOOLEAN, chrome_exists : BOOLEAN, driver_major : {0, 1},
     chrome_major : {0, 1, 2}, persist_ok : BOOLEAN]

\* what a call of start_bot finds: any numbers with a good URL and good
\* binaries, or good numbers with any URL and either setting of "auto
\* driver", or a good form with either setting of "auto driver" and any state
\* of the binaries
StartInputs ==
    ([numeric : BOOLEAN, batch : {1}, parallel : {1}, max_errors : {1},
      backoff : 0 .. MaxBackoff, cap : 0 .. MaxCap, pause : {-1, 0, MaxPause},
      url : {GoodUrl}, auto_driver : {FALSE}] \X {GoodEnv})
    \cup
    ([numeric : {TRUE}, batch : {1}, parallel : {1}, max_errors : {1},
      backoff : {MaxBackoff}, cap : {MaxCap}, pause : {MaxPause},
      url : UrlEntries, auto_driver : BOOLEAN] \X {GoodEnv})
    \cup
    ([numeric : {TRUE}, batch : {1}, parallel : {1}, max_errors : {1},
      backoff : {MaxBackoff}, cap : {MaxCap}, pause : {MaxPause},
      url : {GoodUrl}, auto_driver : BOOLEAN] \X StartEnvs)

\* ------------------------------------------------------------------- Init
LoopIdle ==
    /\ batch_size = DefaultBatchSize
    /\ parallel_workers = DefaultParallelWorkers
    /\ max_errors = DefaultMaxErrors
    /\ backoff_seconds = DefaultBackoff
    /\ backoff_cap_seconds = DefaultBackoffCap
    /\ pause_between_votes = DefaultPause
    /\ active_drivers = {}
    /\ stale = 0
    /\ rb_pc = "none"
    /\ consecutive_errors = 0
    /\ backoff_delay = 0
    /\ batch_ok = FALSE
    /\ wait_for = 0
    /\ sleep_left = 0
    /\ mb_pc = "idle"
    /\ next_submit = 0
    /\ successes = 0
    /\ failures = 0
    /\ cur = 0
    /\ unit = [i \in UnitIds |-> "unsubmitted"]
    /\ drv = [i \in UnitIds |-> "none"]
    /\ prof = [i \in UnitIds |-> "none"]
    /\ teardown_calls = 0
    /\ voted = 0
    /\ last_click = "none"
    /\ clicks = 0
    /\ retries = 0
    /\ failStreak = 0
    /\ backoffs = 0
    /\ sleeping = FALSE
    /\ slept_after_stop = 0
    /\ final_teardowns = 0
    /\ ui_pc = "idle"

AppInit ==
    /\ is_running = FALSE
    /\ stop_event = FALSE
    /\ LoopIdle

\* no selector resolution in progress
SelIdle ==
    /\ custom_selectors = <<>>
    /\ vote_selectors = <<>>
    /\ clickable = {}
    /\ locator = "app"
    /\ loc_pc = "idle"
    /\ loc_idx = 0
    /\ last_exc = FALSE
    /\ located = "nothing"

\* no registry drain in progress
MgrIdle ==
    /\ mgr_active_drivers = {}
    /\ mgr_driver_profiles = {}
    /\ mgr_dirs = {}
    /\ mgr_root = TRUE
    /\ mgr_worker = [h \in Handles |-> "unused"]
    /\ mgr_profile_dir = [h \in Handles |-> FALSE]
    /\ mgr_quits = [h \in Handles |-> 0]
    /\ mgr_raised = {}
    /\ mgr_pc = "idle"
    /\ mgr_request = "none"
    /\ mgr_left = 0
    /\ mgr_todo = {}
    /\ mgr_snap = {}

\* no wait in progress
WaitIdle ==
    /\ wt_kind = "none"
    /\ wt_pc = "idle"
    /\ wt_left = 0
    /\ wt_sel = 0
    /\ wt_quit = FALSE
    /\ wt_after_stop = 0

\* a StateManager that no thread uses
StateIdle ==
    /\ sm_heap = <<NewStatistics>>
    /\ sm_stats = 1
    /\ sm_pc = [t \in Threads |-> "idle"]
    /\ sm_ref = [t \in Threads |-> 0]
    /\ sm_calls = [vote |-> 0, error |-> 0]

\* a fresh ConfigurationManager without a configuration file
ConfigIdle ==
    /\ cfg_config = DEFAULT_CONFIG
    /\ cfg_file = NoFile
    /\ cfg_temp = NoFile
    /\ cfg_pc = "ready"
    /\ cfg_prev = NoFile
    /\ cfg_loaded = DEFAULT_CONFIG
    /\ cfg_edits = 0
    /\ cfg_saves = 0
    /\ cfg_unlink_failed = FALSE

\* normalize_user_agents has returned for an empty list
AgentsIdle ==
    /\ ua_agents = <<>>
    /\ ua_cleaned = <<>>
    /\ ua_seen = {}
    /\ ua_idx = 1
    /\ ua_pc = "done"

\* start_bot has not been called
StartIdle ==
    /\ use_selenium_manager = FALSE
    /\ st_form = GoodForm
    /\ st_env = GoodEnv
    /\ st_before = [is_running |-> FALSE, stop_event |-> FALSE, worker |-> "none"]
    /\ st_outcome = "none"

\* StateManager(): no observer, the default statistics
ObserversIdle ==
    /\ ob_observers = <<>>
    /\ ob_stats = NewStatistics
    /\ ob_pc = "idle"
    /\ ob_idx = 0
    /\ ob_start = <<>>
    /\ ob_result = NewStatistics
    /\ ob_log = <<>>
    /\ ob_raised = FALSE
    /\ ob_changed = FALSE
    /\ ob_outcome = "none"
    /\ ob_calls = 0

\* LogHistory(max_entries=1), nothing added
LogIdle ==
    /\ lg_max_entries = 1
    /\ lg_entries = <<>>
    /\ lg_added = <<>>

\* no manager has been made and neither candidate file exists
PathIdle ==
    /\ fp_same_dir = FALSE
    /\ fp_files = <<NoFile, NoFile>>
    /\ fp_before = <<NoFile, NoFile>>
    /\ fp_config_path = 0
    /\ fp_ignored = <<>>
    /\ fp_config = DEFAULT_CONFIG
    /\ fp_pc = "new"

\* no batch has run: the counters are 0
CountIdle ==
    /\ error_count = 0
    /\ failure_count = 0
    /\ vote_count = 0
    /\ ct_failed = 0
    /\ ct_succeeded = 0
    /\ ct_pc = "prepare"
    /\ ct_session = FALSE
    /\ ct_done = 0

\* no run_bot thread was created
WorkersIdle ==
    /\ worker = 0
    /\ wk_pc = [w \in 1 .. MaxWorkers |-> "unborn"]
    /\ wk_ui = "idle"
    /\ wk_stopped = {}

Init == AppInit /\ SelIdle /\ MgrIdle /\ WaitIdle /\ StateIdle /\ ConfigIdle /\ AgentsIdle /\ StartIdle /\ ObserversIdle /\ LogIdle /\ PathIdle /\ CountIdle /\ WorkersIdle

\* ------------------------------------------------------ UI thread: start/stop
\* start_bot with a form that passes the checks; the worker thread is created
\* at its first statement. Restarting is modelled once the previous worker
\* thread has returned.
StartBot ==
    /\ ui_pc = "idle"
    /\ ~is_running
    /\ rb_pc \in {"none", "exited"}
    /\ \E f \in FormInputs :
          /\ FormValid(f.pause, f.backoff, f.cap)
          /\ batch_size' = ClampBatch(f.batch)
          /\ parallel_workers' = ClampParallel(f.parallel)
          /\ max_errors' = ClampMaxErrors(f.max_errors)
          /\ backoff_seconds' = f.backoff
          /\ backoff_cap_seconds' = f.cap
          /\ pause_between_votes' = f.pause
    /\ is_running' = TRUE
    /\ stop_event' = FALSE
    /\ rb_pc' = "start"
    /\ UNCHANGED <<sideVars, active_drivers, stale, loopVars, batchVars,
                   unit, drv, prof, teardown_calls, clicks, retries, histVars, clickVars>>

\* stop_bot up to its _cleanup_drivers call: "self.is_running = False;
\* self._stop_event.set()"
StopBot ==
    /\ ui_pc = "idle"
    /\ is_running
    /\ is_running' = FALSE
    /\ stop_event' = TRUE
    /\ ui_pc' = "stop_cleanup"
    /\ UNCHANGED <<compVars, sleeping, slept_after_stop, final_teardowns,
                   settingsVars, active_drivers, stale, rb_pc, loopVars, batchVars,
                   unit, drv, prof, teardown_calls, clicks, retries, histVars, clickVars>>

\* the rest of stop_bot: tear down every registered driver; the join has a
\* timeout and never blocks the UI thread for good
StopBotCleanup ==
    /\ ui_pc = "stop_cleanup"
    /\ CleanupDrivers
    /\ ui_pc' = "idle"
    /\ UNCHANGED <<compVars, sleeping, slept_after_stop, final_teardowns,
                   settingsVars, is_running, stop_event, rb_pc, loopVars, batchVars,
                   unit, clicks, retries, histVars, clickVars>>

\* ------------------------------------------------------- run_bot (worker thread)
\* _sleep_with_checks: the number of 0.1 s steps of a sleep
SleepSteps(seconds) == Max(1, seconds)

\* slip: the delay is capped but never doubled
KeepBackoff(delay, cap) == Min(delay, cap)

\* run_bot line "backoff_delay = min(backoff_delay * 2, self.backoff_cap_seconds)"
DoubleBackoff(delay, cap) == Min(delay * 2, cap)

\* run_bot line "wait_for = min(backoff_delay, self.backoff_cap_seconds)"
WaitFor(delay, cap) == Min(delay, cap)

\* slip: ">" for ">="
ExceededMaxErrors(count, limit) == count > limit

\* run_bot's test "consecutive_errors >= self.max_errors"
ReachedMaxErrors(count, limit) == count >= limit

\* slip: a batch is ok only when every unit succeeded
AllUnitsOk(s) == s = batch_size

\* run_batch's result: "if successes == 0: return False", otherwise True
BatchOk(s) == s # 0

\* the pauses run_bot can draw: max(0.5, pause_between_votes + jitter)
PauseChoices == {Max(MinPause, pause_between_votes + j) : j \in {0 - JitterSpan, 0, JitterSpan}}

\* the first two statements of run_bot
RunBotStart ==
    /\ rb_pc = "start"
    /\ consecutive_errors' = 0
    /\ backoff_delay' = backoff_seconds
    /\ rb_pc' = "head"
    /\ failStreak' = 0
    /\ backoffs' = 0
    /\ slept_after_stop' = 0
    /\ final_teardowns' = 0
    /\ UNCHANGED <<compVars, sleeping, ui_pc,
                   settingsVars, is_running, stop_event, active_drivers, stale,
                   batch_ok, wait_for, sleep_left, batchVars,
                   unit, drv, prof, teardown_calls, clicks, retries, clickVars>>

\* "while not self._stop_event.is_set()": leave the loop or call run_batch
RunBotHead ==
    /\ rb_pc = "head"
    /\ IF stop_event
       THEN /\ rb_pc' = "finish"
            /\ UNCHANGED mb_pc
       ELSE /\ rb_pc' = "batch"
            /\ mb_pc' = "submit"
    /\ UNCHANGED <<sideVars, settingsVars, is_running, stop_event, active_drivers, stale,
                   loopVars, next_submit, successes, failures, cur,
                   unit, drv, prof, teardown_calls, clicks, retries, histVars, clickVars>>

\* run_batch has returned and its locals are gone: the drivers it left
\* registered stay in active_drivers
ForgetBatch ==
    /\ next_submit' = 0
    /\ successes' = 0
    /\ failures' = 0
    /\ cur' = 0
    /\ stale' = stale + Cardinality(active_drivers)
    /\ active_drivers' = {}
    /\ unit' = [i \in UnitIds |-> "unsubmitted"]
    /\ drv' = [i \in UnitIds |-> "none"]
    /\ prof' = [i \in UnitIds |-> "none"]
    /\ teardown_calls' = 0
    /\ voted' = 0
    /\ last_click' = "none"
    /\ clicks' = 0
    /\ retries' = 0

\* "if batch_ok: consecutive_errors = 0; backoff_delay = backoff_seconds
\*  else: consecutive_errors += 1"
RunBotAfterBatch ==
    /\ rb_pc = "after_batch"
    /\ IF batch_ok
       THEN /\ consecutive_errors' = 0
            /\ backoff_delay' = backoff_seconds
            /\ failStreak' = 0
            /\ backoffs' = 0
       ELSE /\ consecutive_errors' = consecutive_errors + 1
            /\ failStreak' = Min(failStreak + 1, MaxStreak)
            /\ UNCHANGED <<backoff_delay, backoffs>>
    /\ rb_pc' = "check"
    /\ batch_ok' = FALSE
    /\ ForgetBatch
    /\ UNCHANGED <<sideVars, settingsVars, is_running, stop_event,
                   wait_for, sleep_left, mb_pc>>

\* "if consecutive_errors >= self.max_errors": start the backoff sleep with a
\* reset counter; otherwise draw the jitter and start the pause
RunBotCheck ==
    /\ rb_pc = "check"
    /\ IF ReachedMaxErrors(consecutive_errors, max_errors)
       THEN /\ wait_for' = WaitFor(backoff_delay, backoff_cap_seconds)
            /\ consecutive_errors' = 0
            /\ sleep_left' = SleepSteps(wait_for')
            /\ rb_pc' = "backoff_sleep"
            /\ backoffs' = Min(backoffs + 1, MaxStreak)
       ELSE /\ \E pause \in PauseChoices : sleep_left' = SleepSteps(pause)
            /\ rb_pc' = "pause_sleep"
            /\ UNCHANGED <<wait_for, consecutive_errors, backoffs>>
    /\ UNCHANGED <<sideVars, settingsVars, is_running, stop_event, active_drivers, stale,
                   backoff_delay, batch_ok, batchVars, failStreak,
                   unit, drv, prof, teardown_calls, clicks, retries, clickVars>>

\* slip: the sleep never looks at the stop signal
SleepUninterrupted == FALSE

\* _sleep_with_checks: "if self._stop_event.is_set(): return False"
SleepInterrupted == stop_event

\* one iteration of _sleep_with_checks, the test: return False when the stop
\* signal is set (run_bot breaks out of its loop), otherwise enter
\* time.sleep(0.1)
SleepPoll ==
    /\ rb_pc \in {"backoff_sleep", "pause_sleep"}
    /\ sleep_left > 0
    /\ ~sleeping
    /\ IF SleepInterrupted
       THEN /\ rb_pc' = "finish"
            /\ UNCHANGED sleeping
       ELSE /\ sleeping' = TRUE
            /\ UNCHANGED rb_pc
    /\ UNCHANGED <<compVars, slept_after_stop, final_teardowns, ui_pc,
                   settingsVars, is_running, stop_event, active_drivers, stale,
                   loopVars, batchVars,
                   unit, drv, prof, teardown_calls, clicks, retries, histVars, clickVars>>

\* one iteration of _sleep_with_checks, the sleep: time.sleep(0.1) returns,
\* whether or not the stop signal was set meanwhile
SleepStep ==
    /\ rb_pc \in {"backoff_sleep", "pause_sleep"}
    /\ sleeping
    /\ sleeping' = FALSE
    /\ sleep_left' = sleep_left - 1
    /\ slept_after_stop' = IF stop_event THEN slept_after_stop + 1 ELSE slept_after_stop
    /\ UNCHANGED <<compVars, final_teardowns, ui_pc,
                   settingsVars, is_running, stop_event, active_drivers, stale,
                   rb_pc, consecutive_errors, backoff_delay, batch_ok, wait_for, batchVars,
                   unit, drv, prof, teardown_calls, clicks, retries, histVars, clickVars>>

\* the backoff sleep returned True: double the delay, then draw the pause
BackoffSlept ==
    /\ rb_pc = "backoff_sleep"
    /\ sleep_left = 0
    /\ backoff_delay' = DoubleBackoff(backoff_delay, backoff_cap_seconds)
    /\ \E pause \in PauseChoices : sleep_left' = SleepSteps(pause)
    /\ rb_pc' = "pause_sleep"
    /\ UNCHANGED <<sideVars, settingsVars, is_running, stop_event, active_drivers, stale,
                   consecutive_errors, batch_ok, wait_for, batchVars,
                   unit, drv, prof, teardown_calls, clicks, retries, histVars, clickVars>>

\* the pause returned True: next iteration
PauseSlept ==
    /\ rb_pc = "pause_sleep"
    /\ sleep_left = 0
    /\ rb_pc' = "head"
    /\ UNCHANGED <<sideVars, settingsVars, is_running, stop_event, active_drivers, stale,
                   loopVars, batchVars,
                   unit, drv, prof, teardown_calls, clicks, retries, histVars, clickVars>>

\* after the loop: "self.is_running = False; self._cleanup_drivers()"
RunBotFinish ==
    /\ rb_pc = "finish"
    /\ is_running' = FALSE
    /\ CleanupDrivers
    /\ rb_pc' = "exited"
    /\ consecutive_errors' = 0
    /\ backoff_delay' = 0
    /\ batch_ok' = FALSE
    /\ wait_for' = 0
    /\ sleep_left' = 0
    /\ failStreak' = 0
    /\ backoffs' = 0
    /\ final_teardowns' = stale + Cardinality(active_drivers)
    /\ UNCHANGED <<compVars, sleeping, slept_after_stop, ui_pc,
                   settingsVars, stop_event, batchVars, unit, clicks, retries, clickVars>>

\* ----------------------------------------------------- run_batch (worker thread)
Running == {i \in UnitIds : unit[i] = "running"}
Queued == {i \in UnitIds : unit[i] = "queued"}

\* "for i in range(total): if stop: break; futures.append(executor.submit(...))"
RunBatchSubmit ==
    /\ rb_pc = "batch" /\ mb_pc = "submit"
    /\ IF stop_event
       THEN /\ mb_pc' = "collect"
            /\ UNCHANGED <<next_submit, unit>>
       ELSE /\ unit' = [unit EXCEPT ![next_submit] = "queued"]
            /\ next_submit' = next_submit + 1
            /\ mb_pc' = IF next_submit + 1 = batch_size THEN "collect" ELSE "submit"
    /\ UNCHANGED <<sideVars, settingsVars, is_running, stop_event, active_drivers, stale,
                   rb_pc, loopVars, successes, failures, cur,
                   drv, prof, teardown_calls, clicks, retries, histVars, clickVars>>

\* slip: the unit is not counted
ForgetPrepareFailure(f) == f

\* what run_batch adds to failures for a future that raised or returned None
CountPrepareFailure(f) == f + 1

\* slip: no "except Exception" around future.result(), so that the exception
\* of a pool thread ends run_batch and run_bot
PropagateFailure(i) ==
    /\ rb_pc = "batch" /\ mb_pc = "collect"
    /\ unit[i] \in {"ret_none", "ret_exc"}
    /\ IF unit[i] = "ret_exc"
       THEN /\ rb_pc' = "exited"
            /\ mb_pc' = "idle"
            /\ UNCHANGED failures
       ELSE /\ failures' = failures + 1
            /\ UNCHANGED <<rb_pc, mb_pc>>
    /\ unit' = [unit EXCEPT ![i] = "consumed"]
    /\ UNCHANGED <<sideVars, settingsVars, is_running, stop_event, active_drivers, stale,
                   loopVars, next_submit, successes, cur,
                   drv, prof, teardown_calls, clicks, retries, histVars, clickVars>>

\* as_completed yields a finished future whose session is None or whose
\* result() raised: "self.increment_error(); failures += 1; continue"
RunBatchCollectFailure(i) ==
    /\ rb_pc = "batch" /\ mb_pc = "collect"
    /\ unit[i] \in {"ret_none", "ret_exc"}
    /\ unit' = [unit EXCEPT ![i] = "consumed"]
    /\ failures' = CountPrepareFailure(failures)
    /\ UNCHANGED <<sideVars, settingsVars, is_running, stop_event, active_drivers, stale,
                   rb_pc, loopVars, mb_pc, next_submit, successes, cur,
                   drv, prof, teardown_calls, clicks, retries, histVars, clickVars>>

\* as_completed yields a prepared session: torn down when the stop signal is
\* set, handed to _complete_vote otherwise
RunBatchCollectSession(i) ==
    /\ rb_pc = "batch" /\ mb_pc = "collect"
    /\ unit[i] = "ret_session"
    /\ IF stop_event
       THEN /\ TeardownDrivers({i})
            /\ unit' = [unit EXCEPT ![i] = "consumed"]
            /\ UNCHANGED <<mb_pc, cur>>
       ELSE /\ unit' = [unit EXCEPT ![i] = "completing"]
            /\ cur' = i
            /\ mb_pc' = "click"
            /\ UNCHANGED <<active_drivers, drv, prof, teardown_calls>>
    /\ clicks' = 0
    /\ retries' = 0
    /\ last_click' = "none"
    /\ UNCHANGED <<sideVars, settingsVars, is_running, stop_event, stale,
                   rb_pc, loopVars, next_submit, successes, failures, histVars, voted>>

\* how a click attempt can end
ClickOutcomes == {"ok", "raised"}

\* _complete_vote, first attempt: vote_button.click() returns (the vote is
\* counted, the finally block tears the driver down) or raises
CompleteVoteClick ==
    /\ rb_pc = "batch" /\ mb_pc = "click"
    /\ clicks' = clicks + 1
    /\ \E outcome \in ClickOutcomes :
          /\ last_click' = outcome
          /\ IF outcome = "ok"
             THEN /\ successes' = successes + 1
                  /\ voted' = voted + 1
                  /\ TeardownDrivers({cur})
                  /\ unit' = [unit EXCEPT ![cur] = "consumed"]
                  /\ mb_pc' = "collect"
             ELSE /\ mb_pc' = "retry"
                  /\ UNCHANGED <<successes, voted, unit, active_drivers, drv, prof,
                                 teardown_calls>>
    /\ UNCHANGED <<sideVars, settingsVars, is_running, stop_event, stale,
                   rb_pc, loopVars, next_submit, failures, cur,
                   retries, histVars>>

\* the outcomes of the retry block of _complete_vote: a step before the click
\* raised (refresh, selector resolution), or the second click was attempted
RetryOutcomes == {"no_click", "raised", "ok"}

\* slip: a failed retry is retried
RetryAgain(outcome) == IF outcome = "ok" THEN "collect" ELSE "retry"

\* where _complete_vote goes after its retry block: it returns
AfterRetry(outcome) == "collect"

\* _complete_vote, except branch: refresh, resolve the selectors again, click
\* again; whatever happens the finally block tears the driver down
CompleteVoteRetry ==
    /\ rb_pc = "batch" /\ mb_pc = "retry"
    /\ retries' = retries + 1
    /\ \E outcome \in RetryOutcomes :
          /\ clicks' = IF outcome = "no_click" THEN clicks ELSE clicks + 1
          /\ last_click' = IF outcome = "no_click" THEN last_click ELSE outcome
          /\ mb_pc' = AfterRetry(outcome)
          /\ IF mb_pc' = "collect"
             THEN /\ IF outcome = "ok"
                     THEN /\ successes' = successes + 1
                          /\ voted' = voted + 1
                          /\ UNCHANGED failures
                     ELSE /\ failures' = failures + 1
                          /\ UNCHANGED <<successes, voted>>
                  /\ TeardownDrivers({cur})
                  /\ unit' = [unit EXCEPT ![cur] = "consumed"]
             ELSE UNCHANGED <<successes, failures, voted, unit, active_drivers, drv,
                              prof, teardown_calls>>
    /\ UNCHANGED <<sideVars, settingsVars, is_running, stop_event, stale,
                   rb_pc, loopVars, next_submit, cur, histVars>>

\* every submitted future has been consumed: the executor is shut down and
\* run_batch returns whether a unit succeeded
RunBatchReturn ==
    /\ rb_pc = "batch" /\ mb_pc = "collect"
    /\ \A i \in UnitIds : unit[i] \in {"unsubmitted", "consumed"}
    /\ batch_ok' = BatchOk(successes)
    /\ mb_pc' = "idle"
    /\ rb_pc' = "after_batch"
    /\ UNCHANGED <<sideVars, settingsVars, is_running, stop_event, active_drivers, stale,
                   consecutive_errors, backoff_delay, wait_for, sleep_left,
                   next_submit, successes, failures, cur,
                   unit, drv, prof, teardown_calls, clicks, retries, histVars, clickVars>>

\* ------------------------------------------- _prepare_vote_session (pool threads)
\* the executor runs queued tasks in submission order on at most
\* max_workers threads
CanStart(i) ==
    /\ unit[i] = "queued"
    /\ \A j \in Queued : i <= j
    /\ Cardinality(Running) < parallel_workers

\* _create_temp_profile_dir, create_driver, _register_driver: create_driver
\* returns None (the profile directory is discarded) or a driver
PrepareCreate(i) ==
    /\ CanStart(i)
    /\ \/ /\ unit' = [unit EXCEPT ![i] = "ret_none"]
          /\ prof' = [prof EXCEPT ![i] = "removed"]
          /\ UNCHANGED <<drv, active_drivers>>
       \/ /\ unit' = [unit EXCEPT ![i] = "running"]
          /\ prof' = [prof EXCEPT ![i] = "exists"]
          /\ drv' = [drv EXCEPT ![i] = "open"]
          /\ active_drivers' = active_drivers \cup {i}
    /\ UNCHANGED <<sideVars, settingsVars, is_running, stop_event, stale,
                   rb_pc, loopVars, batchVars, teardown_calls, clicks, retries, histVars, clickVars>>

\* the rest of _prepare_vote_session. With the stop signal set the driver is
\* torn down. Otherwise set_page_load_timeout, which is outside the try block,
\* may raise and leave the driver registered; navigation and selector
\* resolution either give a session or raise inside the try block, whose
\* finally tears the driver down.
PrepareNavigate(i) ==
    /\ unit[i] = "running"
    /\ IF stop_event
       THEN /\ TeardownDrivers({i})
            /\ unit' = [unit EXCEPT ![i] = "ret_none"]
       ELSE \/ /\ unit' = [unit EXCEPT ![i] = "ret_session"]
               /\ UNCHANGED <<active_drivers, drv, prof, teardown_calls>>
            \/ /\ stale + Cardinality(Leaked) < MaxStale
               /\ unit' = [unit EXCEPT ![i] = "ret_exc"]
               /\ UNCHANGED <<active_drivers, drv, prof, teardown_calls>>
            \/ /\ TeardownDrivers({i})
               /\ unit' = [unit EXCEPT ![i] = "ret_none"]
    /\ UNCHANGED <<sideVars, settingsVars, is_running, stop_event, stale,
                   rb_pc, loopVars, batchVars, clicks, retries, histVars, clickVars>>

\* ------------------------------------------------------------------- Next
Next ==
    \/ StartBot
    \/ StopBot
    \/ StopBotCleanup
    \/ RunBotStart
    \/ RunBotHead
    \/ RunBatchSubmit
    \/ \E i \in UnitIds : PrepareCreate(i)
    \/ \E i \in UnitIds : PrepareNavigate(i)
    \/ \E i \in UnitIds : RunBatchCollectFailure(i)
    \/ \E i \in UnitIds : RunBatchCollectSession(i)
    \/ CompleteVoteClick
    \/ CompleteVoteRetry
    \/ RunBatchReturn
    \/ RunBotAfterBatch
    \/ RunBotCheck
    \/ SleepPoll
    \/ SleepStep
    \/ BackoffSlept
    \/ PauseSlept
    \/ RunBotFinish

Spec == Init /\ [][Next]_vars

\* the steps of the run-loop thread and of the pool threads
RunLoopStep ==
    \/ RunBotStart
    \/ RunBotHead
    \/ RunBatchSubmit
    \/ \E i \in UnitIds : RunBatchCollectFailure(i)
    \/ \E i \in UnitIds : RunBatchCollectSession(i)
    \/ CompleteVoteClick
    \/ CompleteVoteRetry
    \/ RunBatchReturn
    \/ RunBotAfterBatch
    \/ RunBotCheck
    \/ SleepPoll
    \/ SleepStep
    \/ BackoffSlept
    \/ PauseSlept
    \/ RunBotFinish

PoolStep(i) == PrepareCreate(i) \/ PrepareNavigate(i)

\* every started thread keeps being scheduled; the operator is free never to
\* press stop
FairSpec ==
    /\ Init /\ [][Next]_vars
    /\ WF_vars(RunLoopStep)
    /\ WF_vars(StopBotCleanup)
    /\ \A i \in UnitIds : WF_vars(PoolStep(i))

\* ================================================================== claims
OpenSessions == {i \in UnitIds : drv[i] = "open"}
CreatedSessions == {i \in UnitIds : drv[i] # "none"}
InLoop == rb_pc \in {"head", "batch", "after_batch", "check", "backoff_sleep", "pause_sleep"}

RECURSIVE Pow2(_)
Pow2(n) == IF n <= 0 THEN 1 ELSE 2 * Pow2(n - 1)

\* C1: during a batch the number of open browser sessions (driver created and
\* not yet torn down) never exceeds parallel_workers.
C1_OpenSessionsWithinWorkers ==
    rb_pc = "batch" => Cardinality(OpenSessions) <= parallel_workers

\* C2: every driver handle created for a vote attempt is eventually torn down:
\* a driver of the running batch does not stay open, and a driver a finished
\* batch left open does not stay open either.
C2_EveryDriverEventuallyTornDown ==
    /\ \A i \in UnitIds : (drv[i] = "open") ~> (drv[i] # "open")
    /\ (stale > 0) ~> (stale = 0)

\* C3: when run_batch returns, the number of teardown calls equals the number
\* of sessions created in the batch and none of its drivers is still
\* registered.
C3_TeardownCallsEqualSessions ==
    rb_pc = "after_batch" =>
        /\ teardown_calls = Cardinality(CreatedSessions)
        /\ active_drivers = {}

\* C4 as stated: the backoff wait applied after k consecutive failed batches
\* is min(backoff_seconds * 2^(k-1), backoff_cap_seconds), for every
\* max_errors.
C4_BackoffByFailedBatches ==
    (rb_pc = "backoff_sleep" /\ failStreak < MaxStreak) =>
        wait_for = Min(backoff_seconds * Pow2(failStreak - 1), backoff_cap_seconds)

\* C4 amended: a backoff wait is applied only when the consecutive-error
\* counter reaches max_errors; the j-th wait since the last ok batch comes
\* after j * max_errors consecutive failed batches and lasts
\* min(backoff_seconds * 2^(j-1), backoff_cap_seconds), so that the first wait
\* after an ok batch is backoff_seconds again.
C4_BackoffByRound ==
    (rb_pc = "backoff_sleep" /\ backoffs < MaxStreak) =>
        /\ backoffs >= 1
        /\ wait_for = Min(backoff_seconds * Pow2(backoffs - 1), backoff_cap_seconds)
        /\ failStreak < MaxStreak => failStreak = backoffs * max_errors

C4_Witness ==
    /\ rb_pc = "backoff_sleep"
    /\ max_errors = 2
    /\ backoffs = 2
    /\ failStreak = 4
    /\ wait_for = 2 * backoff_seconds

\* C5: run_bot starts a backoff sleep exactly when the consecutive failed
\* batches reach a multiple of max_errors; the sleep lasts
\* min(backoff_delay, backoff_cap_seconds), which is backoff_seconds for the
\* first one, the counter is reset to 0, and when the sleep is over the delay
\* is doubled, capped at backoff_cap_seconds.
C5_BackoffSleepAtMaxErrors ==
    [][ /\ (rb_pc = "check" /\ rb_pc' # "check") =>
              /\ (failStreak < MaxStreak) =>
                    ((rb_pc' = "backoff_sleep")
                        <=> (failStreak > 0 /\ failStreak % max_errors = 0))
              /\ (rb_pc' = "backoff_sleep") =>
                    /\ wait_for' = Min(backoff_delay, backoff_cap_seconds)
                    /\ backoffs = 0 => wait_for' = backoff_seconds
                    /\ sleep_left' = wait_for'
                    /\ consecutive_errors' = 0
        /\ (rb_pc = "backoff_sleep" /\ rb_pc' = "pause_sleep") =>
              /\ backoff_delay' = Min(2 * backoff_delay, backoff_cap_seconds)
              /\ consecutive_errors' = 0
      ]_vars

C5_Witness ==
    /\ rb_pc = "pause_sleep"
    /\ max_errors = 2
    /\ failStreak = 2
    /\ backoffs = 1
    /\ consecutive_errors = 0
    /\ backoff_delay = 2 * backoff_seconds

C30_NothingNewAfterStop ==
    [][stop_event =>
          /\ \A i \in UnitIds : drv'[i] = "open" => drv[i] = "open"
          /\ clicks' <= clicks
          /\ voted' <= voted]_vars

\* C6: a batch is ok iff at least one unit's click returned; after an ok batch
\* run_bot sets the consecutive-error counter to 0 and the backoff delay to
\* backoff_seconds, after any other batch it adds one to the counter; three
\* votes out of three give successes = 3, failures = 0 and an ok batch.
C6_BatchOkAndCounter ==
    [][ (rb_pc = "after_batch" /\ rb_pc' = "check") =>
            /\ batch_ok <=> (voted >= 1)
            /\ batch_ok => (consecutive_errors' = 0 /\ backoff_delay' = backoff_seconds)
            /\ ~batch_ok => consecutive_errors' = consecutive_errors + 1
            /\ (batch_size = 3 /\ voted = 3) =>
                  (successes = 3 /\ failures = 0 /\ batch_ok /\ consecutive_errors' = 0)
      ]_vars

C6_Witness ==
    /\ rb_pc = "after_batch"
    /\ batch_size = 3
    /\ parallel_workers = 2
    /\ voted = 3
    /\ successes = 3
    /\ failures = 0
    /\ batch_ok

\* C7: when no stop signal occurs during a batch, every unit is run and
\* counted once: successes is the number of units whose click returned,
\* failures the number of the others, and successes + failures = batch_size.
C7_EveryUnitCounted ==
    (rb_pc = "after_batch" /\ ~stop_event) =>
        /\ \A i \in Units : unit[i] = "consumed"
        /\ successes = voted
        /\ failures = batch_size - voted
        /\ successes + failures = batch_size

C7_Witness ==
    /\ rb_pc = "after_batch"
    /\ ~stop_event
    /\ batch_size = 3
    /\ Leaked # {}
    /\ successes = 1
    /\ failures = 2

\* C8: run_bot leaves its loop only with the stop signal set.
C8_LoopLeftOnlyOnStop ==
    [][ (InLoop /\ ~InLoop') => stop_event ]_vars

C8_Witness ==
    /\ rb_pc = "head"
    /\ ~stop_event
    /\ failStreak >= 2
    /\ stale > 0

\* C10: _complete_vote retries exactly once after a failed first click, a
\* session gets at most two click attempts, and the unit is counted as a
\* success iff its latest click returned, as a failure otherwise.
C10_OneRetry ==
    [][ /\ clicks' <= 2
        /\ retries' <= 1
        /\ (mb_pc = "click" /\ mb_pc' # "click") =>
              /\ clicks' = 1
              /\ (mb_pc' = "retry") <=> (last_click' = "raised")
        /\ (mb_pc = "retry" /\ mb_pc' # "retry") =>
              /\ retries' = 1
              /\ mb_pc' = "collect"
        /\ (mb_pc \in {"click", "retry"} /\ mb_pc' = "collect") =>
              /\ (last_click' = "ok") <=> (successes' = successes + 1 /\ failures' = failures)
              /\ (last_click' # "ok") <=> (failures' = failures + 1 /\ successes' = successes)
      ]_vars

C10_Witness ==
    /\ mb_pc = "collect"
    /\ clicks = 2
    /\ retries = 1
    /\ last_click = "ok"
    /\ successes = 1

\* ======================================================= selector resolution
\* A selector is <<by, value>>; a value is a sequence of text pieces. The
\* built-in values are one piece each, the configured ones are spelled out
\* character by character so that lower(), startswith(), split(":", 1) and
\* strip() are computed on them.
ByCss == "css selector"
ByXpath == "xpath"

\* the defaults of _build_vote_selectors, in its order
DefaultSelectors ==
    << <<ByCss, <<"a[data-action='vote']">> >>,
       <<ByCss, <<"button[data-action='vote']">> >>,
       <<ByCss, <<"a[href*='/vote'][role='button']">> >>,
       <<ByXpath, <<"//a[contains(translate(., 'VOTE', 'vote'), 'vote')]">> >>,
       <<ByXpath, <<"//button[contains(translate(., 'VOTE', 'vote'), 'vote')]">> >>,
       <<ByXpath, <<"//*[@id='distroListContainer']//a[contains(@class,'vote') or contains(@href,'/vote')]">> >> >>

\* entries a configuration can hold in "vote_selectors": "xpath://b",
\* "CSS: .v", "#p " and "a:hover" are strings, 123 is not
RawEntries ==
    { [isstr |-> TRUE, text |-> <<"x", "p", "a", "t", "h", ":", "/", "/", "b">>],
      [isstr |-> TRUE, text |-> <<"C", "S", "S", ":", " ", ".", "v">>],
      [isstr |-> TRUE, text |-> <<"#", "p", " ">>],
      [isstr |-> TRUE, text |-> <<"a", ":", "h", "o", "v", "e", "r">>],
      [isstr |-> FALSE, text |-> <<"1", "2", "3">>] }

\* str.lower() on the characters that occur
LowerChar(c) ==
    CASE c = "C" -> "c"
      [] c = "S" -> "s"
      [] c = "X" -> "x"
      [] c = "P" -> "p"
      [] c = "A" -> "a"
      [] c = "T" -> "t"
      [] c = "H" -> "h"
      [] c = "U" -> "u"
      [] c = "O" -> "o"
      [] c = "N" -> "n"
      [] c = "E" -> "e"
      [] c = "G" -> "g"
      [] OTHER -> c

Lower(text) == [k \in 1 .. Len(text) |-> LowerChar(text[k])]

StartsWith(text, prefix) ==
    /\ Len(text) >= Len(prefix)
    /\ SubSeq(text, 1, Len(prefix)) = prefix

\* raw.split(":", 1)[1] for a text that holds a colon
AfterFirstColon(text) ==
    LET first == CHOOSE k \in 1 .. Len(text) :
                    /\ text[k] = ":"
                    /\ \A j \in 1 .. (k - 1) : text[j] # ":"
    IN  SubSeq(text, first + 1, Len(text))

\* str.strip() for blanks
RECURSIVE Strip(_)
Strip(text) ==
    IF text = <<>> THEN <<>>
    ELSE IF Head(text) = " " THEN Strip(Tail(text))
    ELSE IF text[Len(text)] = " " THEN Strip(SubSeq(text, 1, Len(text) - 1))
    ELSE text

\* one custom entry of _build_vote_selectors
ParseSelector(raw) ==
    IF StartsWith(Lower(raw.text), <<"x", "p", "a", "t", "h", ":">>)
    THEN <<ByXpath, Strip(AfterFirstColon(raw.text))>>
    ELSE IF StartsWith(Lower(raw.text), <<"c", "s", "s", ":">>)
    THEN <<ByCss, Strip(AfterFirstColon(raw.text))>>
    ELSE <<ByCss, Strip(raw.text)>>

\* "for raw in custom_selectors: if not isinstance(raw, str): continue;
\*  selectors.append(...)"
RECURSIVE AppendCustom(_, _)
AppendCustom(selectors, custom) ==
    IF custom = <<>> THEN selectors
    ELSE IF ~Head(custom).isstr THEN AppendCustom(selectors, Tail(custom))
    ELSE AppendCustom(Append(selectors, ParseSelector(Head(custom))), Tail(custom))

\* slip: the configured selectors are put before the defaults
CustomFirst(custom) == AppendCustom(<<>>, custom) \o DefaultSelectors

\* _build_vote_selectors
BuildVoteSelectors(custom) == AppendCustom(DefaultSelectors, custom)

CustomLists == UNION {[1 .. n -> RawEntries] : n \in 0 .. MaxCustom}

Pending == [kind |-> "pending", index |-> 0]

\* a resolution is about to start for some configured selectors
SelInit ==
    /\ WorkersIdle
    /\ CountIdle
    /\ PathIdle
    /\ LogIdle
    /\ ObserversIdle
    /\ StartIdle
    /\ AgentsIdle
    /\ ConfigIdle
    /\ StateIdle
    /\ AppInit
    /\ MgrIdle
    /\ WaitIdle
    /\ custom_selectors \in CustomLists
    /\ vote_selectors = <<>>
    /\ clickable = {}
    /\ locator \in {"app", "session"}
    /\ loc_pc = "build"
    /\ loc_idx = 0
    /\ last_exc = FALSE
    /\ located = Pending

\* vote_selectors is built and the page is loaded: some of the selectors are
\* clickable on it, and stay so during the resolution
LocateBuild ==
    /\ loc_pc = "build"
    /\ vote_selectors' = BuildVoteSelectors(custom_selectors)
    /\ \E page \in SUBSET {vote_selectors'[k] : k \in 1 .. Len(vote_selectors')} :
          /\ Cardinality(page) <= MaxClickable
          /\ clickable' = page
    /\ loc_idx' = 1
    /\ loc_pc' = "loop"
    /\ UNCHANGED <<selOthers, stop_event, custom_selectors, locator, last_exc, located>>

\* the stop signal is set while the resolution runs
LocateStop ==
    /\ loc_pc \in {"loop", "after_loop"}
    /\ ~stop_event
    /\ stop_event' = TRUE
    /\ UNCHANGED <<selOthers, selVars>>

\* one iteration of "for by, value in self.vote_selectors": only
\* VotryxApp._locate_vote_button tests the stop signal; wait.until returns the
\* element when the selector is clickable and raises when its wait times out
LocateTry ==
    /\ loc_pc = "loop"
    /\ IF locator = "app" /\ stop_event
       THEN /\ loc_pc' = "after_loop"
            /\ UNCHANGED <<loc_idx, last_exc, located>>
       ELSE IF vote_selectors[loc_idx] \in clickable
       THEN /\ located' = [kind |-> "element", index |-> loc_idx]
            /\ loc_pc' = "done"
            /\ UNCHANGED <<loc_idx, last_exc>>
       ELSE /\ last_exc' = TRUE
            /\ loc_idx' = loc_idx + 1
            /\ loc_pc' = IF loc_idx = Len(vote_selectors) THEN "after_loop" ELSE "loop"
            /\ UNCHANGED located
    /\ UNCHANGED <<selOthers, stop_event, custom_selectors, vote_selectors, clickable,
                   locator>>

\* after the loop: "if last_exc: raise last_exc" and "return None"
LocateFail ==
    /\ loc_pc = "after_loop"
    /\ located' = [kind |-> IF last_exc THEN "raised" ELSE "None", index |-> 0]
    /\ loc_pc' = "done"
    /\ UNCHANGED <<selOthers, stop_event, custom_selectors, vote_selectors, clickable,
                   locator, loc_idx, last_exc>>

SelNext ==
    \/ LocateBuild
    \/ LocateStop
    \/ LocateTry
    \/ LocateFail

SelSpec == SelInit /\ [][SelNext]_vars

\* the positions of vote_selectors whose selector is clickable
Matching == {k \in 1 .. Len(vote_selectors) : vote_selectors[k] \in clickable}
FirstMatch == CHOOSE k \in Matching : \A j \in Matching : k <= j

IsString(raw) == raw.isstr

\* the list the configuration asks for: the defaults, then the configured
\* strings in their order
ExpectedSelectors ==
    LET strings == SelectSeq(custom_selectors, IsString)
    IN  DefaultSelectors \o [k \in 1 .. Len(strings) |-> ParseSelector(strings[k])]

\* C9 as stated: the resolution returns the element of the first selector, in
\* list order, that is clickable, and fails when none is.
C9_FirstMatchReturned ==
    loc_pc = "done" =>
        IF Matching = {}
        THEN located.kind \in {"raised", "None"}
        ELSE located = [kind |-> "element", index |-> FirstMatch]

\* C9 amended: vote_selectors is the defaults followed by the configured
\* selectors in order; an element that is returned is the one of the first
\* clickable selector; when no selector is clickable no element is returned;
\* and the first clickable selector's element is returned unless
\* VotryxApp._locate_vote_button finds the stop signal set before it tries
\* that selector, in which case it fails.
C9_FirstMatchUnlessStopped ==
    /\ loc_pc # "build" => vote_selectors = ExpectedSelectors
    /\ loc_pc = "done" =>
          /\ located.kind \in {"element", "raised", "None"}
          /\ located.kind = "element" =>
                (Matching # {} /\ located.index = FirstMatch)
          /\ (Matching # {} /\ located.kind # "element") =>
                (locator = "app" /\ stop_event)
          /\ (located.kind = "None") => ~last_exc

C9_Witness ==
    /\ loc_pc = "done"
    /\ Len(vote_selectors) = Len(DefaultSelectors) + 2
    /\ Matching = {Len(vote_selectors) - 1, Len(vote_selectors)}
    /\ located = [kind |-> "element", index |-> Len(vote_selectors) - 1]

\* ============================================================ registry drain
\* stop_bot and on_close against the pool threads of _prepare_vote_session.
\* A handle h stands for the driver of pool task h and for its profile
\* directory. A directory counts as discarded once _discard_profile_dir or the
\* removal of temp_root was applied to it (rmtree ignores errors).
WorkerStates == {"unused", "creating", "registered", "session", "returned"}

\* the drain starts from a running application whose pool tasks are anywhere
\* in _prepare_vote_session, or from one that was stopped while pool tasks are
\* still winding down
DrainInit ==
    /\ WorkersIdle
    /\ CountIdle
    /\ PathIdle
    /\ LogIdle
    /\ ObserversIdle
    /\ StartIdle
    /\ AgentsIdle
    /\ ConfigIdle
    /\ StateIdle
    /\ LoopIdle
    /\ SelIdle
    /\ WaitIdle
    /\ is_running \in BOOLEAN
    /\ stop_event = ~is_running
    /\ mgr_worker \in [Handles -> WorkerStates \ {"returned"}]
    /\ is_running \/ \A h \in Handles : mgr_worker[h] # "session"
    /\ mgr_profile_dir \in [Handles -> BOOLEAN]
    /\ \A h \in Handles : mgr_worker[h] = "unused" => ~mgr_profile_dir[h]
    /\ mgr_active_drivers = {h \in Handles : mgr_worker[h] \in {"registered", "session"}}
    /\ mgr_driver_profiles = {h \in mgr_active_drivers : mgr_profile_dir[h]}
    /\ mgr_dirs = {h \in Handles : mgr_profile_dir[h]}
    /\ mgr_root = TRUE
    /\ mgr_quits = [h \in Handles |-> 0]
    /\ mgr_raised = {}
    /\ mgr_pc = "idle"
    /\ mgr_request = "none"
    /\ mgr_left = 0
    /\ mgr_todo = {}
    /\ mgr_snap = {}

\* slip: an exception of quit() skips _unregister_driver
UnregisterUnlessRaised(raised) == ~raised

\* _teardown_driver: "try: driver.quit() except Exception: pass", then
\* _unregister_driver in every case
UnregisterAfterQuit(raised) == TRUE

\* _teardown_driver(h) with a quit() that raises or not; _unregister_driver
\* discards the profile directory it pops from driver_profiles
MgrTeardownDriver(h, raised) ==
    /\ mgr_quits' = [mgr_quits EXCEPT ![h] = @ + 1]
    /\ mgr_raised' = IF raised THEN mgr_raised \cup {h} ELSE mgr_raised
    /\ IF UnregisterAfterQuit(raised)
       THEN /\ mgr_active_drivers' = mgr_active_drivers \ {h}
            /\ mgr_driver_profiles' = mgr_driver_profiles \ {h}
            /\ mgr_dirs' = IF h \in mgr_driver_profiles THEN mgr_dirs \ {h} ELSE mgr_dirs
       ELSE UNCHANGED <<mgr_active_drivers, mgr_driver_profiles, mgr_dirs>>

\* stop_bot (nothing when the bot is not running: is_running = False, the
\* stop signal, _cleanup_drivers) and on_close (stop_bot, then
\* _cleanup_temp_profiles), up to the first _cleanup_drivers
MgrRequest ==
    /\ mgr_pc = "idle"
    /\ \E r \in {"stop_bot", "on_close"} :
          /\ r = "stop_bot" => is_running
          /\ mgr_request' = r
          /\ mgr_left' = (IF is_running THEN 1 ELSE 0) + (IF r = "on_close" THEN 1 ELSE 0)
    /\ stop_event' = (stop_event \/ is_running)
    /\ is_running' = FALSE
    /\ mgr_snap' = mgr_active_drivers
    /\ mgr_pc' = "snapshot"
    /\ UNCHANGED <<mgrOthers, mgr_active_drivers, mgr_driver_profiles, mgr_dirs, mgr_root,
                   mgr_worker, mgr_profile_dir, mgr_quits, mgr_raised, mgr_todo>>

\* _cleanup_drivers: "with self._driver_lock: drivers = list(self.active_drivers)"
MgrSnapshot ==
    /\ mgr_pc = "snapshot"
    /\ mgr_todo' = mgr_active_drivers
    /\ mgr_left' = mgr_left - 1
    /\ mgr_pc' = "teardown"
    /\ UNCHANGED <<mgrOthers, is_running, stop_event, mgr_active_drivers, mgr_driver_profiles,
                   mgr_dirs, mgr_root, mgr_worker, mgr_profile_dir, mgr_quits, mgr_raised,
                   mgr_request, mgr_snap>>

\* _cleanup_drivers: "for driver in drivers: self._teardown_driver(driver)"
MgrTeardown ==
    /\ mgr_pc = "teardown"
    /\ \E h \in mgr_todo, raised \in BOOLEAN :
          /\ MgrTeardownDriver(h, raised)
          /\ mgr_todo' = mgr_todo \ {h}
    /\ UNCHANGED <<mgrOthers, is_running, stop_event, mgr_root, mgr_worker, mgr_profile_dir,
                   mgr_pc, mgr_request, mgr_left, mgr_snap>>

\* _cleanup_drivers returns: to on_close's _cleanup_temp_profiles, which calls
\* it again and then goes on, or to the end of stop_bot
MgrCleanupReturn ==
    /\ mgr_pc = "teardown"
    /\ mgr_todo = {}
    /\ mgr_pc' = IF mgr_left > 0 THEN "snapshot"
                 ELSE IF mgr_request = "on_close" THEN "clear"
                 ELSE "done"
    /\ UNCHANGED <<mgrOthers, is_running, stop_event, mgr_active_drivers, mgr_driver_profiles,
                   mgr_dirs, mgr_root, mgr_worker, mgr_profile_dir, mgr_quits, mgr_raised,
                   mgr_request, mgr_left, mgr_todo, mgr_snap>>

\* _cleanup_temp_profiles: "remaining = list(self.driver_profiles.values());
\* self.driver_profiles.clear()" and the discard of every remaining path
MgrClearProfiles ==
    /\ mgr_pc = "clear"
    /\ mgr_dirs' = mgr_dirs \ mgr_driver_profiles
    /\ mgr_driver_profiles' = {}
    /\ mgr_pc' = "rmroot"
    /\ UNCHANGED <<mgrOthers, is_running, stop_event, mgr_active_drivers, mgr_root,
                   mgr_worker, mgr_profile_dir, mgr_quits, mgr_raised,
                   mgr_request, mgr_left, mgr_todo, mgr_snap>>

\* _cleanup_temp_profiles: "shutil.rmtree(self.temp_root, ignore_errors=True)"
MgrRemoveRoot ==
    /\ mgr_pc = "rmroot"
    /\ mgr_dirs' = {}
    /\ mgr_root' = FALSE
    /\ mgr_pc' = "done"
    /\ UNCHANGED <<mgrOthers, is_running, stop_event, mgr_active_drivers, mgr_driver_profiles,
                   mgr_worker, mgr_profile_dir, mgr_quits, mgr_raised,
                   mgr_request, mgr_left, mgr_todo, mgr_snap>>

\* _prepare_vote_session, _create_temp_profile_dir: mkdtemp under temp_root
\* gives a path, or raises (always once temp_root is gone) and None is used
WorkerCreateProfile(h) ==
    /\ mgr_worker[h] = "unused"
    /\ mgr_worker' = [mgr_worker EXCEPT ![h] = "creating"]
    /\ \E made \in BOOLEAN :
          /\ made => mgr_root
          /\ mgr_profile_dir' = [mgr_profile_dir EXCEPT ![h] = made]
          /\ mgr_dirs' = IF made THEN mgr_dirs \cup {h} ELSE mgr_dirs
    /\ UNCHANGED <<mgrOthers, is_running, stop_event, mgr_active_drivers, mgr_driver_profiles,
                   mgr_root, mgr_quits, mgr_raised,
                   mgr_pc, mgr_request, mgr_left, mgr_todo, mgr_snap>>

\* _prepare_vote_session: create_driver returns None and the profile
\* directory is discarded, or returns a driver that _register_driver records
WorkerCreateDriver(h) ==
    /\ mgr_worker[h] = "creating"
    /\ \/ /\ mgr_worker' = [mgr_worker EXCEPT ![h] = "returned"]
          /\ mgr_dirs' = mgr_dirs \ {h}
          /\ UNCHANGED <<mgr_active_drivers, mgr_driver_profiles>>
       \/ /\ mgr_worker' = [mgr_worker EXCEPT ![h] = "registered"]
          /\ mgr_active_drivers' = mgr_active_drivers \cup {h}
          /\ mgr_driver_profiles' = IF mgr_profile_dir[h]
                                    THEN mgr_driver_profiles \cup {h}
                                    ELSE mgr_driver_profiles
          /\ UNCHANGED mgr_dirs
    /\ UNCHANGED <<mgrOthers, is_running, stop_event, mgr_root, mgr_profile_dir,
                   mgr_quits, mgr_raised, mgr_pc, mgr_request, mgr_left, mgr_todo, mgr_snap>>

\* _prepare_vote_session: "if self._stop_event.is_set():
\* self._teardown_driver(driver); return None", otherwise the session goes on
WorkerStopCheck(h) ==
    /\ mgr_worker[h] = "registered"
    /\ IF stop_event
       THEN /\ \E raised \in BOOLEAN : MgrTeardownDriver(h, raised)
            /\ mgr_worker' = [mgr_worker EXCEPT ![h] = "returned"]
       ELSE /\ mgr_worker' = [mgr_worker EXCEPT ![h] = "session"]
            /\ UNCHANGED <<mgr_active_drivers, mgr_driver_profiles, mgr_dirs,
                           mgr_quits, mgr_raised>>
    /\ UNCHANGED <<mgrOthers, is_running, stop_event, mgr_root, mgr_profile_dir,
                   mgr_pc, mgr_request, mgr_left, mgr_todo, mgr_snap>>

\* the session ends: the finally blocks of _prepare_vote_session and
\* _complete_vote, or run_batch's stop branch, tear the driver down
WorkerSessionEnd(h) ==
    /\ mgr_worker[h] = "session"
    /\ \E raised \in BOOLEAN : MgrTeardownDriver(h, raised)
    /\ mgr_worker' = [mgr_worker EXCEPT ![h] = "returned"]
    /\ UNCHANGED <<mgrOthers, is_running, stop_event, mgr_root, mgr_profile_dir,
                   mgr_pc, mgr_request, mgr_left, mgr_todo, mgr_snap>>

DrainNext ==
    \/ MgrRequest
    \/ MgrSnapshot
    \/ MgrTeardown
    \/ MgrCleanupReturn
    \/ MgrClearProfiles
    \/ MgrRemoveRoot
    \/ \E h \in Handles : WorkerCreateProfile(h)
    \/ \E h \in Handles : WorkerCreateDriver(h)
    \/ \E h \in Handles : WorkerStopCheck(h)
    \/ \E h \in Handles : WorkerSessionEnd(h)

DrainSpec == DrainInit /\ [][DrainNext]_vars

\* pool threads that can still register a driver or are about to test the
\* stop signal
Preparing == {h \in Handles : mgr_worker[h] \in {"unused", "creating", "registered"}}

C13_SleepInterruptedWithinOnePoll ==
    [][ /\ slept_after_stop' <= 1
        /\ (stop_event /\ rb_pc \in {"backoff_sleep", "pause_sleep"}) =>
              /\ rb_pc' \in {rb_pc, "pause_sleep", "head", "finish"}
              /\ (~sleeping /\ sleep_left > 0) => rb_pc' \in {rb_pc, "finish"}
              /\ (~sleeping /\ sleep_left > 0 /\ rb_pc' = rb_pc) => UNCHANGED sleep_left
              /\ sleep_left' >= sleep_left - 1
      ]_vars

C13_Witness ==
    /\ rb_pc = "finish"
    /\ stop_event
    /\ slept_after_stop = 1
    /\ sleep_left >= 2

\* ========================================================= suspension points
\* The waits of a vote attempt, one poll per step. A wait times out after
\* MaxWaitPolls polls; a selector resolution has MaxWaitSelectors selectors.
\*   "page_load"               driver.get under set_page_load_timeout
\*   "document_ready_app"      VotryxApp._wait_for_document_ready
\*   "selector_app"            wait.until in VotryxApp._locate_vote_button
\*   "sleep"                   VotryxApp._sleep_with_checks
\*   "document_ready_session"  VotingSession._wait_for_document_ready
\*   "selector_session"        wait.until in VotingSession.locate_vote_button
AppWaits == {"page_load", "document_ready_app", "selector_app", "sleep"}
SessionWaits == {"document_ready_session", "selector_session"}
SelectorWaits == {"selector_app", "selector_session"}

\* the waits whose loop tests the stop signal before each poll
StopChecked == {"document_ready_app", "sleep"}

\* the waits that end with an exception once the driver has quit:
\* _wait_for_document_ready swallows it and a sleep uses no driver
RaisesAfterQuit == {"page_load", "selector_app"}

WaitInit ==
    /\ WorkersIdle
    /\ CountIdle
    /\ PathIdle
    /\ LogIdle
    /\ ObserversIdle
    /\ StartIdle
    /\ AgentsIdle
    /\ ConfigIdle
    /\ StateIdle
    /\ LoopIdle
    /\ SelIdle
    /\ MgrIdle
    /\ is_running = TRUE
    /\ stop_event = FALSE
    /\ wt_kind \in AppWaits \cup SessionWaits
    /\ wt_pc = "waiting"
    /\ wt_left = MaxWaitPolls
    /\ wt_sel = IF wt_kind \in SelectorWaits THEN MaxWaitSelectors ELSE 1
    /\ wt_quit = FALSE
    /\ wt_after_stop = 0

\* the stop request: stop_bot sets _stop_event, VotingEngine.stop sets
\* is_stopped
WaitStop ==
    /\ is_running
    /\ is_running' = FALSE
    /\ stop_event' = TRUE
    /\ UNCHANGED <<wtOthers, wtVars>>

\* stop_bot's _cleanup_drivers quits the driver of the attempt; VotingEngine
\* has no such step
WaitQuit ==
    /\ stop_event
    /\ wt_kind \in AppWaits
    /\ ~wt_quit
    /\ wt_quit' = TRUE
    /\ UNCHANGED <<wtOthers, is_running, stop_event,
                   wt_kind, wt_pc, wt_left, wt_sel, wt_after_stop>>

\* the wait is over: by its stop test, because its condition holds, or by an
\* exception of the driver
WaitEnds ==
    /\ wt_pc' = "ended"
    /\ UNCHANGED <<wt_left, wt_sel, wt_after_stop>>

\* one more poll interval goes by without the condition holding; at the
\* timeout a selector resolution goes to its next selector, where only
\* VotryxApp._locate_vote_button tests the stop signal
WaitGoesOn ==
    /\ wt_after_stop' = IF stop_event THEN wt_after_stop + 1 ELSE wt_after_stop
    /\ IF wt_left > 1
       THEN /\ wt_left' = wt_left - 1
            /\ UNCHANGED <<wt_pc, wt_sel>>
       ELSE IF wt_sel > 1 /\ ~(wt_kind = "selector_app" /\ stop_event)
       THEN /\ wt_left' = MaxWaitPolls
            /\ wt_sel' = wt_sel - 1
            /\ UNCHANGED wt_pc
       ELSE /\ wt_left' = 0
            /\ wt_pc' = "ended"
            /\ UNCHANGED wt_sel

\* one iteration of the wait's loop
WaitPoll ==
    /\ wt_pc = "waiting"
    /\ IF wt_kind \in StopChecked /\ stop_event
       THEN WaitEnds
       ELSE IF wt_kind \in RaisesAfterQuit /\ wt_quit
       THEN WaitEnds
       ELSE \/ /\ wt_kind # "sleep"
               /\ ~wt_quit
               /\ WaitEnds
            \/ WaitGoesOn
    /\ UNCHANGED <<wtOthers, is_running, stop_event, wt_kind, wt_quit>>

WaitNext ==
    \/ WaitStop
    \/ WaitQuit
    \/ WaitPoll

WaitSpec == WaitInit /\ [][WaitNext]_vars

\* C14: every suspension point tests the stop signal at each poll, so that
\* once the signal is set a wait makes at most the poll that was under way
\* and never runs on to its timeout.
C14_WaitsEndWithinOnePoll ==
    wt_after_stop <= 1

\* ============================================================= StateManager
\* VotingStatistics objects live in sm_heap and are referred to by their
\* position; a call of the StateManager reads _stats, builds the new snapshot
\* and stores it in _stats, and threads interleave between the read and the
\* store. None is 0 for start_time.
\* slip: the success counter is forgotten
with_vote_only(s) == [s EXCEPT !.vote_count = @ + 1]

\* VotingStatistics.with_vote
with_vote(s) ==
    [vote_count |-> s.vote_count + 1,
     error_count |-> s.error_count,
     success_count |-> s.success_count + 1,
     failure_count |-> s.failure_count,
     start_time |-> s.start_time,
     is_running |-> s.is_running]

\* VotingStatistics.with_error
with_error(s) ==
    [vote_count |-> s.vote_count,
     error_count |-> s.error_count + 1,
     success_count |-> s.success_count,
     failure_count |-> s.failure_count + 1,
     start_time |-> s.start_time,
     is_running |-> s.is_running]

\* slip: stopping leaves start_time as it is
with_running_keeps_start(s, running, now) ==
    [vote_count |-> s.vote_count,
     error_count |-> s.error_count,
     success_count |-> s.success_count,
     failure_count |-> s.failure_count,
     start_time |-> IF running /\ ~s.is_running THEN now ELSE s.start_time,
     is_running |-> running]

\* VotingStatistics.with_running, time.time() being now
with_running(s, running, now) ==
    [vote_count |-> s.vote_count,
     error_count |-> s.error_count,
     success_count |-> s.success_count,
     failure_count |-> s.failure_count,
     start_time |-> IF running /\ ~s.is_running THEN now
                    ELSE IF ~running /\ s.is_running THEN 0
                    ELSE s.start_time,
     is_running |-> running]

\* VotingStatistics.reset_counters
reset_counters(s) ==
    [vote_count |-> 0,
     error_count |-> 0,
     success_count |-> 0,
     failure_count |-> 0,
     start_time |-> 0,
     is_running |-> FALSE]

\* the snapshot a StateManager call assigns to self._stats
Mutated(call, s, now) ==
    CASE call = "increment_vote" -> with_vote(s)
      [] call = "increment_error" -> with_error(s)
      [] call = "set_running_on" -> with_running(s, TRUE, now)
      [] call = "set_running_off" -> with_running(s, FALSE, now)
      [] OTHER -> reset_counters(s)

StateCalls == {"increment_vote", "increment_error", "set_running_on", "set_running_off",
               "reset_counters"}

StateInit ==
    /\ WorkersIdle
    /\ CountIdle
    /\ PathIdle
    /\ LogIdle
    /\ ObserversIdle
    /\ StartIdle
    /\ AgentsIdle
    /\ ConfigIdle
    /\ AppInit
    /\ SelIdle
    /\ MgrIdle
    /\ WaitIdle
    /\ StateIdle

\* a thread enters a call and evaluates "self._stats"
StateRead(t) ==
    /\ sm_pc[t] = "idle"
    /\ Len(sm_heap) + Cardinality({u \in Threads : sm_pc[u] # "idle"}) <= MaxCalls
    /\ \E call \in StateCalls : sm_pc' = [sm_pc EXCEPT ![t] = call]
    /\ sm_ref' = [sm_ref EXCEPT ![t] = sm_stats]
    /\ UNCHANGED <<smOthers, stop_event, sm_heap, sm_stats, sm_calls>>

\* the thread builds the new snapshot from the object it read and assigns it
\* to self._stats
StateStore(t) ==
    /\ sm_pc[t] # "idle"
    /\ \E now \in 1 .. MaxClock :
          sm_heap' = Append(sm_heap, Mutated(sm_pc[t], sm_heap[sm_ref[t]], now))
    /\ sm_stats' = Len(sm_heap')
    /\ sm_calls' = CASE sm_pc[t] = "increment_vote" -> [sm_calls EXCEPT !.vote = @ + 1]
                     [] sm_pc[t] = "increment_error" -> [sm_calls EXCEPT !.error = @ + 1]
                     [] sm_pc[t] = "reset_counters" -> [vote |-> 0, error |-> 0]
                     [] OTHER -> sm_calls
    /\ sm_pc' = [sm_pc EXCEPT ![t] = "idle"]
    /\ sm_ref' = [sm_ref EXCEPT ![t] = 0]
    /\ UNCHANGED <<smOthers, stop_event>>

StateNext ==
    \/ \E t \in Threads : StateRead(t)
    \/ \E t \in Threads : StateStore(t)

StateSpec == StateInit /\ [][StateNext]_vars

\* C15: when increment_vote and increment_error are called from several
\* threads no update is lost: once the calls have returned, vote_count and
\* error_count of the current statistics are the numbers of increment_vote
\* and increment_error calls.
C15_NoLostUpdate ==
    (\A t \in Threads : sm_pc[t] = "idle") =>
        /\ sm_heap[sm_stats].vote_count = sm_calls.vote
        /\ sm_heap[sm_stats].error_count = sm_calls.error

\* C20: with_vote gives a new snapshot whose vote_count and success_count are
\* one greater, with_error one whose error_count and failure_count are one
\* greater, every other field is the original's, and no snapshot that existed
\* before, the original included, is modified.
C20_FunctionalUpdate ==
    [][ \A t \in Threads :
          (sm_pc[t] # "idle" /\ sm_pc'[t] = "idle") =>
              LET old == sm_heap[sm_ref[t]]
                  new == sm_heap'[Len(sm_heap')]
              IN  /\ Len(sm_heap') = Len(sm_heap) + 1
                  /\ \A k \in 1 .. Len(sm_heap) : sm_heap'[k] = sm_heap[k]
                  /\ sm_pc[t] = "increment_vote" =>
                        /\ new.vote_count = old.vote_count + 1
                        /\ new.success_count = old.success_count + 1
                        /\ new.error_count = old.error_count
                        /\ new.failure_count = old.failure_count
                        /\ new.start_time = old.start_time
                        /\ new.is_running = old.is_running
                  /\ sm_pc[t] = "increment_error" =>
                        /\ new.error_count = old.error_count + 1
                        /\ new.failure_count = old.failure_count + 1
                        /\ new.vote_count = old.vote_count
                        /\ new.success_count = old.success_count
                        /\ new.start_time = old.start_time
                        /\ new.is_running = old.is_running
      ]_vars

C20_Witness ==
    /\ Len(sm_heap) = 4
    /\ sm_heap[1] = NewStatistics
    /\ sm_heap[2] = [NewStatistics EXCEPT !.is_running = TRUE, !.start_time = 1]
    /\ sm_heap[3] = [sm_heap[2] EXCEPT !.vote_count = 1, !.success_count = 1]
    /\ sm_heap[4] = [sm_heap[3] EXCEPT !.error_count = 1, !.failure_count = 1]

\* ====================================================== ConfigurationManager
\* A configuration maps each key of ConfigKeys to a value, "absent" when the
\* key is missing. The values are the kinds json treats differently: numbers,
\* null, a string, a list, a tuple (written as an array, read back as a
\* list), dicts, and a set (not serializable: json.dump raises TypeError after
\* it has written part of the document).
\* what json.load gives for a value that json.dump wrote
JsonOf(v) == IF v = "tuple" THEN "list" ELSE v

Serializable(v) == v # "set"

IsDict(v) == v \in {"dict_empty", "dict_chrome"}

\* json.dump(config) followed by json.load
JsonOfConfig(config) == [k \in ConfigKeys |-> JsonOf(config[k])]

\* a file that holds a complete JSON document
CompleteFile(config) == [kind |-> "complete", data |-> JsonOfConfig(config)]

\* a file cut off in the middle of the document
PartialFile == [kind |-> "partial", data |-> DEFAULT_CONFIG]

\* ConfigurationManager._load_config: a file that cannot be opened or parsed
\* gives the defaults; so does a "paths" entry that is not a mapping, whose
\* "**data_paths" raises TypeError inside the try block; otherwise the
\* defaults are overlaid with the file's entries
LoadConfig(file) ==
    IF file.kind # "complete" THEN DEFAULT_CONFIG
    ELSE IF file.data["paths"] # "absent" /\ ~IsDict(file.data["paths"]) THEN DEFAULT_CONFIG
    ELSE [k \in ConfigKeys |->
            IF file.data[k] # "absent" THEN file.data[k] ELSE DEFAULT_CONFIG[k]]

ConfigInit ==
    /\ WorkersIdle
    /\ CountIdle
    /\ PathIdle
    /\ LogIdle
    /\ ObserversIdle
    /\ StartIdle
    /\ AgentsIdle
    /\ AppInit
    /\ SelIdle
    /\ MgrIdle
    /\ WaitIdle
    /\ StateIdle
    /\ ConfigIdle

\* ConfigurationManager.set
ConfigSet ==
    /\ cfg_pc = "ready"
    /\ cfg_edits < MaxEdits
    /\ \E k \in ConfigKeys, v \in ConfigValues :
          cfg_config' = [cfg_config EXCEPT ![k] = v]
    /\ cfg_edits' = cfg_edits + 1
    /\ UNCHANGED <<cfgOthers, stop_event, cfg_file, cfg_temp, cfg_pc, cfg_prev, cfg_loaded,
                   cfg_saves, cfg_unlink_failed>>

\* ConfigurationManager.update with a dict of two entries
ConfigUpdate ==
    /\ cfg_pc = "ready"
    /\ cfg_edits < MaxEdits
    /\ \E v \in ConfigValues :
          cfg_config' = [cfg_config EXCEPT !["batch_size"] = "number_10", !["extra"] = v]
    /\ cfg_edits' = cfg_edits + 1
    /\ UNCHANGED <<cfgOthers, stop_event, cfg_file, cfg_temp, cfg_pc, cfg_prev, cfg_loaded,
                   cfg_saves, cfg_unlink_failed>>

\* ConfigurationManager.reset_to_defaults
ConfigResetToDefaults ==
    /\ cfg_pc = "ready"
    /\ cfg_edits < MaxEdits
    /\ cfg_config' = DEFAULT_CONFIG
    /\ cfg_edits' = cfg_edits + 1
    /\ UNCHANGED <<cfgOthers, stop_event, cfg_file, cfg_temp, cfg_pc, cfg_prev, cfg_loaded,
                   cfg_saves, cfg_unlink_failed>>

\* save, "tempfile.mkstemp(..., dir=target_dir)": an empty temp file, or an
\* exception that leaves save before its try block
SaveCreateTemp ==
    /\ cfg_pc = "ready"
    /\ cfg_saves < MaxSaves
    /\ cfg_saves' = cfg_saves + 1
    /\ cfg_prev' = cfg_file
    /\ cfg_unlink_failed' = FALSE
    /\ \/ /\ cfg_temp' = [kind |-> "empty", data |-> DEFAULT_CONFIG]
          /\ cfg_pc' = "created"
       \/ /\ cfg_pc' = "raised"
          /\ UNCHANGED cfg_temp
    /\ UNCHANGED <<cfgOthers, stop_event, cfg_config, cfg_file, cfg_loaded, cfg_edits>>

\* slip: the document is written straight into config_path
WriteInPlace == "config_path"

\* save writes the document into the temp file
WriteTarget == "temp"

\* save, "json.dump(self.config, temp_file, ...)": the whole document is
\* written, or the write stops part-way, as it always does when a value is
\* not serializable
SaveWrite ==
    /\ cfg_pc = "created"
    /\ \E written \in {CompleteFile(cfg_config), PartialFile} :
          /\ written.kind = "complete" => \A k \in ConfigKeys : Serializable(cfg_config[k])
          /\ IF WriteTarget = "temp"
             THEN cfg_temp' = written /\ UNCHANGED cfg_file
             ELSE cfg_file' = written /\ UNCHANGED cfg_temp
          /\ cfg_pc' = IF written.kind = "complete" THEN "written" ELSE "failed"
    /\ UNCHANGED <<cfgOthers, stop_event, cfg_config, cfg_prev, cfg_loaded, cfg_edits,
                   cfg_saves, cfg_unlink_failed>>

\* save, "Path(temp_path).replace(self.config_path)": the rename happens, or
\* it raises and nothing is renamed
SaveReplace ==
    /\ cfg_pc = "written"
    /\ \/ /\ cfg_file' = cfg_temp
          /\ cfg_temp' = NoFile
          /\ cfg_pc' = "saved"
       \/ /\ cfg_pc' = "failed"
          /\ UNCHANGED <<cfg_file, cfg_temp>>
    /\ UNCHANGED <<cfgOthers, stop_event, cfg_config, cfg_prev, cfg_loaded, cfg_edits,
                   cfg_saves, cfg_unlink_failed>>

\* save, the except block: "try: unlink(missing_ok=True) except Exception:
\* pass", then "raise"
SaveCleanup ==
    /\ cfg_pc = "failed"
    /\ \/ /\ cfg_temp' = NoFile
          /\ UNCHANGED cfg_unlink_failed
       \/ /\ cfg_unlink_failed' = TRUE
          /\ UNCHANGED cfg_temp
    /\ cfg_pc' = "raised"
    /\ UNCHANGED <<cfgOthers, stop_event, cfg_config, cfg_file, cfg_prev, cfg_loaded,
                   cfg_edits, cfg_saves>>

\* a new ConfigurationManager is made for the same directories:
\* "self.config = self._load_config()"
ConfigReload ==
    /\ cfg_pc \in {"saved", "raised"}
    /\ cfg_loaded' = LoadConfig(cfg_file)
    /\ cfg_pc' = IF cfg_pc = "saved" THEN "reloaded" ELSE "reloaded_old"
    /\ UNCHANGED <<cfgOthers, stop_event, cfg_config, cfg_file, cfg_temp, cfg_prev,
                   cfg_edits, cfg_saves, cfg_unlink_failed>>

\* the new manager is used from here on; its next save gets a temp file of
\* its own from mkstemp, which does not exist yet
ConfigContinue ==
    /\ cfg_pc \in {"reloaded", "reloaded_old"}
    /\ cfg_config' = cfg_loaded
    /\ cfg_pc' = "ready"
    /\ cfg_edits' = 0
    /\ cfg_prev' = cfg_file
    /\ cfg_temp' = NoFile
    /\ cfg_unlink_failed' = FALSE
    /\ UNCHANGED <<cfgOthers, stop_event, cfg_file, cfg_loaded, cfg_saves>>

ConfigNext ==
    \/ ConfigSet
    \/ ConfigUpdate
    \/ ConfigResetToDefaults
    \/ SaveCreateTemp
    \/ SaveWrite
    \/ SaveReplace
    \/ SaveCleanup
    \/ ConfigReload
    \/ ConfigContinue

ConfigSpec == ConfigInit /\ [][ConfigNext]_vars

\* C16: for a configuration reached through set / update /
\* reset_to_defaults, a save followed by a reload from the same file gives a
\* configuration identical to the one saved.
C16_RoundTrip ==
    cfg_pc = "reloaded" => cfg_loaded = cfg_config

\* a save is under way or has just ended
InSave == cfg_pc \in {"created", "written", "failed", "saved", "raised"}

\* C17 as stated: save writes the whole document to a temp file and renames it
\* over config_path, so config_path always holds the complete previous or the
\* complete new content; when save fails the temp file is removed and the
\* exception is raised again.
C17_AtomicSaveTempRemoved ==
    /\ cfg_file.kind \in {"missing", "complete"}
    /\ InSave => cfg_file \in {cfg_prev, CompleteFile(cfg_config)}
    /\ cfg_pc = "saved" => cfg_file = CompleteFile(cfg_config) /\ cfg_temp = NoFile
    /\ cfg_pc = "raised" => cfg_file = cfg_prev /\ cfg_temp = NoFile

\* C17, amended: config_path always holds the complete previous or the
\* complete new content; save returns only with the new content in place and
\* no temp file left; when save fails config_path keeps the previous content,
\* the exception is raised again, and the temp file is gone unless its unlink
\* failed as well.
C17_AtomicSave ==
    /\ cfg_file.kind \in {"missing", "complete"}
    /\ InSave => cfg_file \in {cfg_prev, CompleteFile(cfg_config)}
    /\ cfg_pc = "saved" => cfg_file = CompleteFile(cfg_config) /\ cfg_temp = NoFile
    /\ cfg_pc = "raised" =>
          /\ cfg_file = cfg_prev
          /\ cfg_temp # NoFile <=> cfg_unlink_failed

\* a save over an existing file failed after part of the new, different
\* document was written, and the temp file was removed
C17_Witness ==
    /\ cfg_pc = "raised"
    /\ cfg_prev.kind = "complete"
    /\ cfg_file = cfg_prev
    /\ \A k \in ConfigKeys : Serializable(cfg_config[k])
    /\ CompleteFile(cfg_config) # cfg_prev
    /\ cfg_temp = NoFile
    /\ ~cfg_unlink_failed

\* ==================================================== user-agent normalization
\* Entries are spelled out character by character so that strip(), len() and
\* lower() are computed on them.
\* entries a "user_agents" list can hold: the five of the documented example
\* ("UA one", "UA ONE", "short", 123, "UA two"), and "Agent No. 1",
\* "AGENT NO. 1", " Agent No. 1 ", "Agent No. 2", "Agent No 3" (10
\* characters) and "Agent No3 " (9 characters and a blank)
UaOne == [isstr |-> TRUE, text |-> <<"U", "A", " ", "o", "n", "e">>]
UaOneUpper == [isstr |-> TRUE, text |-> <<"U", "A", " ", "O", "N", "E">>]
UaShort == [isstr |-> TRUE, text |-> <<"s", "h", "o", "r", "t">>]
UaNumber == [isstr |-> FALSE, text |-> <<"1", "2", "3">>]
UaTwo == [isstr |-> TRUE, text |-> <<"U", "A", " ", "t", "w", "o">>]

AgentEntries ==
    { UaOne, UaOneUpper, UaShort, UaNumber, UaTwo,
      [isstr |-> TRUE, text |-> <<"A", "g", "e", "n", "t", " ", "N", "o", ".", " ", "1">>],
      [isstr |-> TRUE, text |-> <<"A", "G", "E", "N", "T", " ", "N", "O", ".", " ", "1">>],
      [isstr |-> TRUE, text |-> <<" ", "A", "g", "e", "n", "t", " ", "N", "o", ".", " ", "1", " ">>],
      [isstr |-> TRUE, text |-> <<"A", "g", "e", "n", "t", " ", "N", "o", ".", " ", "2">>],
      [isstr |-> TRUE, text |-> <<"A", "g", "e", "n", "t", " ", "N", "o", " ", "3">>],
      [isstr |-> TRUE, text |-> <<"A", "g", "e", "n", "t", " ", "N", "o", "3", " ">>] }

\* the list of the documented example
ExampleAgents == <<UaOne, UaOneUpper, UaShort, UaNumber, UaTwo>>

AgentLists == UNION {[1 .. n -> AgentEntries] : n \in 0 .. MaxAgents}

\* slip: duplicates are told by the exact text
SeenExact(stripped) == stripped

\* "stripped.lower()", the key under which an entry is remembered in seen
SeenKey(stripped) == Lower(stripped)

\* normalize_user_agents is called with some list
AgentsInit ==
    /\ WorkersIdle
    /\ CountIdle
    /\ PathIdle
    /\ LogIdle
    /\ ObserversIdle
    /\ StartIdle
    /\ AppInit
    /\ SelIdle
    /\ MgrIdle
    /\ WaitIdle
    /\ StateIdle
    /\ ConfigIdle
    /\ ua_agents \in AgentLists \cup {ExampleAgents}
    /\ ua_cleaned = <<>>
    /\ ua_seen = {}
    /\ ua_idx = 1
    /\ ua_pc = "loop"

\* one iteration of "for ua in agents or []"
NormalizeStep ==
    /\ ua_pc = "loop"
    /\ ua_idx <= Len(ua_agents)
    /\ LET ua == ua_agents[ua_idx]
           stripped == Strip(ua.text)
       IN  IF ~ua.isstr
           THEN UNCHANGED <<ua_cleaned, ua_seen>>
           ELSE IF stripped = <<>> \/ Len(stripped) < MinUserAgentLength
           THEN UNCHANGED <<ua_cleaned, ua_seen>>
           ELSE IF SeenKey(stripped) \in ua_seen
           THEN UNCHANGED <<ua_cleaned, ua_seen>>
           ELSE /\ ua_seen' = ua_seen \cup {SeenKey(stripped)}
                /\ ua_cleaned' = Append(ua_cleaned, stripped)
    /\ ua_idx' = ua_idx + 1
    /\ UNCHANGED <<uaOthers, stop_event, ua_agents, ua_pc>>

\* "return cleaned"
NormalizeReturn ==
    /\ ua_pc = "loop"
    /\ ua_idx > Len(ua_agents)
    /\ ua_pc' = "done"
    /\ UNCHANGED <<uaOthers, stop_event, ua_agents, ua_cleaned, ua_seen, ua_idx>>

AgentsNext ==
    \/ NormalizeStep
    \/ NormalizeReturn

AgentsSpec == AgentsInit /\ [][AgentsNext]_vars

\* the positions of the entries the rule keeps: strings of at least 10
\* characters after trimming that no earlier string equals, after trimming and
\* without regard to case
KeptPositions(agents) ==
    {k \in 1 .. Len(agents) :
        /\ agents[k].isstr
        /\ Len(Strip(agents[k].text)) >= 10
        /\ \A j \in 1 .. (k - 1) :
              ~(/\ agents[j].isstr
                /\ Lower(Strip(agents[j].text)) = Lower(Strip(agents[k].text)))}

\* the trimmed entries at the positions S, in input order
RECURSIVE TrimmedAt(_, _)
TrimmedAt(agents, S) ==
    IF S = {} THEN <<>>
    ELSE LET first == CHOOSE k \in S : \A j \in S : k <= j
         IN  <<Strip(agents[first].text)>> \o TrimmedAt(agents, S \ {first})

\* C18 as stated: normalization keeps, in input order, the first occurrence of
\* each string entry after trimming, without the non-strings, the entries
\* shorter than 10 characters and the case-insensitive duplicates; for
\* ["UA one", "UA ONE", "short", 123, "UA two"] the result is
\* ["UA one", "UA two"].
C18_NormalizedWithExample ==
    ua_pc = "done" =>
        /\ ua_cleaned = TrimmedAt(ua_agents, KeptPositions(ua_agents))
        /\ ua_agents = ExampleAgents => ua_cleaned = <<UaOne.text, UaTwo.text>>

\* C18, amended: the same rule; for ["UA one", "UA ONE", "short", 123,
\* "UA two"] the result is the empty list, every string of it being shorter
\* than 10 characters.
C18_Normalized ==
    ua_pc = "done" =>
        /\ ua_cleaned = TrimmedAt(ua_agents, KeptPositions(ua_agents))
        /\ ua_agents = ExampleAgents => ua_cleaned = <<>>

\* a list with a non-string, a too short entry and a duplicate in another
\* case was normalized to one entry
C18_Witness ==
    /\ ua_pc = "done"
    /\ Len(ua_cleaned) = 1
    /\ Len(ua_agents) = 3
    /\ \E k \in 1 .. Len(ua_agents) : ~ua_agents[k].isstr
    /\ \E j, k \in 1 .. Len(ua_agents) :
          /\ j < k
          /\ ua_agents[j].isstr
          /\ ua_agents[k].isstr
          /\ ua_agents[j].text # ua_agents[k].text
          /\ Len(Strip(ua_agents[k].text)) >= 10
          /\ Lower(Strip(ua_agents[j].text)) = Lower(Strip(ua_agents[k].text))

\* ============================================================ start_bot's checks
\* run_bot is reduced here to its start and its return.
\* "url = self.url_entry.get().strip(); if not url or not
\*  url.startswith(("http://", "https://"))"
UrlAccepted(url) ==
    LET stripped == Strip(url)
    IN  /\ stripped # <<>>
        /\ \/ StartsWith(stripped, <<"h", "t", "t", "p", ":", "/", "/">>)
           \/ StartsWith(stripped, <<"h", "t", "t", "p", "s", ":", "/", "/">>)

\* _update_settings_from_form up to its assignments: the ValueError of
\* float() / int(), the checks of the numbers and of the URL
FormAccepted(f) ==
    /\ f.numeric
    /\ FormValid(f.pause, f.backoff, f.cap)
    /\ UrlAccepted(f.url)

\* _validate_config_integrity on the settings a form gave
ConfigIntegrity(pause, batch, parallel, backoff, cap) ==
    /\ pause >= 0
    /\ batch > 0
    /\ parallel >= 1 /\ parallel <= WorkerCap
    /\ backoff > 0 /\ cap > 0
    /\ cap >= backoff

\* slip: differing major versions are let through
MismatchIgnored(driver_major, chrome_major) == FALSE

\* _check_version_compatibility refuses: "driver_major and chrome_major and
\* driver_major != chrome_major"; 0 stands for a version that was not read
MismatchBlocks(driver_major, chrome_major) ==
    /\ driver_major # 0
    /\ chrome_major # 0
    /\ driver_major # chrome_major

\* _validate_paths: with Selenium Manager neither the binaries nor their
\* versions are a reason to refuse
ValidatePaths(selenium_manager, e) ==
    IF selenium_manager THEN TRUE
    ELSE /\ e.driver_exists
         /\ e.chrome_exists
         /\ ~MismatchBlocks(e.driver_major, e.chrome_major)

StartInit ==
    /\ WorkersIdle
    /\ CountIdle
    /\ PathIdle
    /\ LogIdle
    /\ ObserversIdle
    /\ AppInit
    /\ SelIdle
    /\ MgrIdle
    /\ WaitIdle
    /\ StateIdle
    /\ ConfigIdle
    /\ AgentsIdle
    /\ StartIdle

\* start_bot, the whole call
StartBotAttempt ==
    /\ \E in \in StartInputs :
          LET f == in[1]
              e == in[2]
          IN  /\ st_form' = f
              /\ st_env' = e
              /\ IF is_running
                 THEN /\ st_outcome' = "ignored"
                      /\ UNCHANGED <<settingsVars, use_selenium_manager, is_running,
                                     stop_event, rb_pc>>
                 ELSE IF ~FormAccepted(f)
                 THEN /\ st_outcome' = "refused"
                      /\ UNCHANGED <<settingsVars, use_selenium_manager, is_running,
                                     stop_event, rb_pc>>
                 ELSE /\ batch_size' = ClampBatch(f.batch)
                      /\ parallel_workers' = ClampParallel(f.parallel)
                      /\ max_errors' = ClampMaxErrors(f.max_errors)
                      /\ backoff_seconds' = f.backoff
                      /\ backoff_cap_seconds' = f.cap
                      /\ pause_between_votes' = f.pause
                      /\ use_selenium_manager' = f.auto_driver
                      /\ IF /\ e.persist_ok
                            /\ ConfigIntegrity(f.pause, ClampBatch(f.batch),
                                               ClampParallel(f.parallel), f.backoff, f.cap)
                            /\ ValidatePaths(f.auto_driver, e)
                         THEN /\ st_outcome' = "started"
                              /\ is_running' = TRUE
                              /\ stop_event' = FALSE
                              /\ rb_pc' = "start"
                         ELSE /\ st_outcome' = "refused"
                              /\ UNCHANGED <<is_running, stop_event, rb_pc>>
    /\ st_before' = [is_running |-> is_running, stop_event |-> stop_event,
                     worker |-> rb_pc]
    /\ UNCHANGED stOthers

\* stop_bot, with run_bot returning within its join
StopAndJoin ==
    /\ is_running
    /\ is_running' = FALSE
    /\ stop_event' = TRUE
    /\ rb_pc' = "exited"
    /\ st_outcome' = "stopped"
    /\ UNCHANGED <<stOthers, settingsVars, use_selenium_manager, st_form, st_env,
                   st_before>>

StartNext ==
    \/ StartBotAttempt
    \/ StopAndJoin

StartSpec == StartInit /\ [][StartNext]_vars

\* start_bot was called while no run was on
Attempted == st_outcome \in {"started", "refused"}

\* the run loop was not started: is_running is False, no worker thread was
\* created and the stop signal is as it was
NotStarted ==
    /\ ~is_running
    /\ rb_pc = st_before.worker
    /\ stop_event = st_before.stop_event

\* the form errors the claim names
FormError(f) ==
    \/ ~f.numeric
    \/ f.pause <= 0
    \/ f.backoff <= 0
    \/ f.cap < f.backoff
    \/ ~UrlAccepted(f.url)

\* the binary errors the claim names
BinaryError(e) ==
    \/ ~e.driver_exists
    \/ ~e.chrome_exists
    \/ /\ e.driver_major # 0
       /\ e.chrome_major # 0
       /\ e.driver_major # e.chrome_major

\* C19 as stated: a non-numeric field, pause <= 0, backoff <= 0, cap < backoff,
\* a URL that is not http(s), a missing browser or driver binary or differing
\* major versions keep start_bot from starting the run loop.
C19_ErrorsBlockStart ==
    (Attempted /\ (FormError(st_form) \/ BinaryError(st_env))) => NotStarted

\* C19, amended: the form errors always keep start_bot from starting the run
\* loop; a missing binary or differing major versions do so unless the form
\* has Selenium Manager switched on.
C19_ErrorsBlockStartUnlessManaged ==
    (Attempted /\ (FormError(st_form) \/ (~st_form.auto_driver /\ BinaryError(st_env))))
        => NotStarted

\* after a stopped run, a start with differing major versions was refused and
\* left the stop signal set
C19_Witness ==
    /\ st_outcome = "refused"
    /\ st_before.stop_event
    /\ st_before.worker = "exited"
    /\ FormAccepted(st_form)
    /\ ~st_form.auto_driver
    /\ st_env.persist_ok
    /\ st_env.driver_exists /\ st_env.chrome_exists
    /\ st_env.driver_major # st_env.chrome_major
    /\ st_env.driver_major # 0 /\ st_env.chrome_major # 0
    /\ NotStarted

Callbacks == 1 .. MaxObservers

\* list.remove(callback): the list without the first occurrence
RECURSIVE RemoveFirst(_, _)
RemoveFirst(list, callback) ==
    IF list = <<>> THEN <<>>
    ELSE IF Head(list) = callback THEN Tail(list)
    ELSE <<Head(list)>> \o RemoveFirst(Tail(list), callback)

InList(list, callback) == \E k \in 1 .. Len(list) : list[k] = callback

ObserversInit ==
    /\ WorkersIdle
    /\ CountIdle
    /\ PathIdle
    /\ LogIdle
    /\ AppInit
    /\ SelIdle
    /\ MgrIdle
    /\ WaitIdle
    /\ StateIdle
    /\ ConfigIdle
    /\ AgentsIdle
    /\ StartIdle
    /\ ObserversIdle

\* register_observer
RegisterObserver ==
    /\ ob_pc = "idle"
    /\ \E callback \in Callbacks :
          ob_observers' = IF InList(ob_observers, callback) THEN ob_observers
                          ELSE Append(ob_observers, callback)
    /\ UNCHANGED <<obOthers, stop_event, ob_stats, ob_pc, ob_idx, ob_start, ob_result,
                   ob_log, ob_raised, ob_changed, ob_outcome, ob_calls>>

\* unregister_observer
UnregisterObserver ==
    /\ ob_pc = "idle"
    /\ \E callback \in Callbacks :
          ob_observers' = IF InList(ob_observers, callback)
                          THEN RemoveFirst(ob_observers, callback)
                          ELSE ob_observers
    /\ UNCHANGED <<obOthers, stop_event, ob_stats, ob_pc, ob_idx, ob_start, ob_result,
                   ob_log, ob_raised, ob_changed, ob_outcome, ob_calls>>

\* increment_vote / increment_error / set_running / reset_counters up to the
\* call of _notify_observers: "self._stats = self._stats.with_...()"
Mutate ==
    /\ ob_pc = "idle"
    /\ ob_calls < MaxMutations
    /\ \E call \in StateCalls, now \in 1 .. MaxClock :
          ob_stats' = Mutated(call, ob_stats, now)
    /\ ob_result' = ob_stats'
    /\ ob_start' = ob_observers
    /\ ob_log' = <<>>
    /\ ob_raised' = FALSE
    /\ ob_changed' = FALSE
    /\ ob_outcome' = "none"
    /\ ob_calls' = ob_calls + 1
    /\ ob_idx' = 1
    /\ ob_pc' = "notify"
    /\ UNCHANGED <<obOthers, stop_event, ob_observers>>

\* slip: the exception of an observer leaves _notify_observers
PropagateError == "raise"

\* "except Exception: pass"
SwallowError == "pass"

\* one iteration of "for observer in self._observers": the list iterator
\* yields the entry at its index in the list as it is now;
\* "observer(self._stats)"
NotifyStep ==
    /\ ob_pc = "notify"
    /\ ob_idx <= Len(ob_observers)
    /\ LET observer == ob_observers[ob_idx]
       IN  /\ ob_log' = Append(ob_log, <<observer, ob_stats>>)
           /\ \/ /\ UNCHANGED <<ob_observers, ob_raised, ob_changed, ob_outcome>>
                 /\ ob_idx' = ob_idx + 1
                 /\ UNCHANGED ob_pc
              \/ /\ ob_raised' = TRUE
                 /\ UNCHANGED <<ob_observers, ob_changed>>
                 /\ IF SwallowError = "pass"
                    THEN /\ ob_idx' = ob_idx + 1
                         /\ UNCHANGED <<ob_pc, ob_outcome>>
                    ELSE /\ ob_pc' = "idle"
                         /\ ob_outcome' = "raised"
                         /\ ob_idx' = 0
              \/ /\ ob_observers' = RemoveFirst(ob_observers, observer)
                 /\ ob_changed' = TRUE
                 /\ ob_idx' = ob_idx + 1
                 /\ UNCHANGED <<ob_pc, ob_raised, ob_outcome>>
    /\ UNCHANGED <<obOthers, stop_event, ob_stats, ob_start, ob_result, ob_calls>>

\* the iterator is exhausted: _notify_observers and the call return
NotifyReturn ==
    /\ ob_pc = "notify"
    /\ ob_idx > Len(ob_observers)
    /\ ob_pc' = "idle"
    /\ ob_idx' = 0
    /\ ob_outcome' = "returned"
    /\ UNCHANGED <<obOthers, stop_event, ob_observers, ob_stats, ob_start, ob_result,
                   ob_log, ob_raised, ob_changed, ob_calls>>

ObserversNext ==
    \/ RegisterObserver
    \/ UnregisterObserver
    \/ Mutate
    \/ NotifyStep
    \/ NotifyReturn

ObserversSpec == ObserversInit /\ [][ObserversNext]_vars

\* every observer registered at the mutation was called once, in registration
\* order, with the snapshot the mutation produced
EachNotifiedOnce ==
    ob_log = [k \in 1 .. Len(ob_start) |-> <<ob_start[k], ob_result>>]

\* C21: after each mutation every registered observer has been called exactly
\* once, in registration order, with the snapshot of that mutation; no
\* callback is registered twice, and a callback that is not registered is not
\* called.
C21_EachObserverOnce ==
    /\ \A j, k \in 1 .. Len(ob_observers) : ob_observers[j] = ob_observers[k] => j = k
    /\ ob_outcome = "returned" => EachNotifiedOnce

LogLevels == {"info", "success", "error"}

\* slip: the first n entries are kept
FirstN(list, n) == SubSeq(list, 1, n)

\* "list[-n:]": the last n entries, the whole list when n is 0 or not less
\* than its length
LastN(list, n) ==
    IF n = 0 \/ n >= Len(list) THEN list
    ELSE SubSeq(list, Len(list) - n + 1, Len(list))

\* get_errors_only: "[e for e in self._entries if e.level == "error"]"
RECURSIVE GetErrorsOnly(_)
GetErrorsOnly(entries) ==
    IF entries = <<>> THEN <<>>
    ELSE IF Head(entries).level = "error"
    THEN <<Head(entries)>> \o GetErrorsOnly(Tail(entries))
    ELSE GetErrorsOnly(Tail(entries))

\* LogHistory(max_entries) for some max_entries >= 1
LogInit ==
    /\ WorkersIdle
    /\ CountIdle
    /\ PathIdle
    /\ AppInit
    /\ SelIdle
    /\ MgrIdle
    /\ WaitIdle
    /\ StateIdle
    /\ ConfigIdle
    /\ AgentsIdle
    /\ StartIdle
    /\ ObserversIdle
    /\ lg_max_entries \in 1 .. MaxEntries
    /\ lg_entries = <<>>
    /\ lg_added = <<>>

\* LogHistory.add
LogAdd ==
    /\ Len(lg_added) < MaxAdds
    /\ \E level \in LogLevels :
          LET entry == [level |-> level, message |-> Len(lg_added) + 1]
              appended == Append(lg_entries, entry)
          IN  /\ lg_entries' = IF Len(appended) > lg_max_entries
                               THEN LastN(appended, lg_max_entries)
                               ELSE appended
              /\ lg_added' = Append(lg_added, entry)
    /\ UNCHANGED <<lgOthers, stop_event, lg_max_entries>>

\* LogHistory.clear
LogClear ==
    /\ lg_added # <<>>
    /\ lg_entries' = <<>>
    /\ lg_added' = <<>>
    /\ UNCHANGED <<lgOthers, stop_event, lg_max_entries>>

LogNext ==
    \/ LogAdd
    \/ LogClear

LogSpec == LogInit /\ [][LogNext]_vars

\* C23: the history holds at most max_entries entries, the most recent ones in
\* insertion order (the oldest are evicted first); get_errors_only gives
\* exactly the held entries of level "error" in their order; clear empties
\* the history.
C23_BoundedRecentEntries ==
    /\ Len(lg_entries) <= lg_max_entries
    /\ LET held == IF Len(lg_added) <= lg_max_entries THEN Len(lg_added)
                   ELSE lg_max_entries
       IN  /\ Len(lg_entries) = held
           /\ \A k \in 1 .. held :
                 lg_entries[k] = lg_added[Len(lg_added) - held + k]
    /\ LET errors == GetErrorsOnly(lg_entries)
       IN  /\ \A k \in 1 .. Len(errors) :
                 /\ errors[k].level = "error"
                 /\ \E j \in 1 .. Len(lg_entries) : lg_entries[j] = errors[k]
           /\ \A j \in 1 .. Len(lg_entries) :
                 lg_entries[j].level = "error" =>
                    \E k \in 1 .. Len(errors) : errors[k] = lg_entries[j]
           /\ \A j, k \in 1 .. Len(errors) :
                 j < k => errors[j].message < errors[k].message

\* a full history of two or more entries has evicted an error entry and holds
\* an error entry and another one
C23_Witness ==
    /\ lg_max_entries >= 2
    /\ Len(lg_added) > lg_max_entries
    /\ Len(lg_entries) = lg_max_entries
    /\ lg_added[1].level = "error"
    /\ lg_entries[1].message = Len(lg_added) - lg_max_entries + 1
    /\ Len(GetErrorsOnly(lg_entries)) = 1

\* ===================================== ConfigurationManager: candidate files
\* what a candidate file can hold: nothing (no file), text that is not JSON,
\* or a JSON object with any of the keys, "paths" being an object or null
FileData ==
    {data \in [ConfigKeys -> {"absent", "number_10", "string", "null", "dict_chrome"}] :
        /\ data["paths"] \in {"absent", "null", "dict_chrome"}
        /\ data["batch_size"] \in {"absent", "number_10"}
        /\ data["extra"] \in {"absent", "string"}}

FileContents ==
    {NoFile, PartialFile} \cup {[kind |-> "complete", data |-> data] : data \in FileData}

\* the candidates in their order; with base_dir = code_dir both are one path
CandidatePath(k) == IF fp_same_dir THEN 1 ELSE k

\* "existing = [path for path in candidates if path.exists()]"
Existing(files) ==
    SelectSeq(<<CandidatePath(1), CandidatePath(2)>>, LAMBDA p : files[p].kind # "missing")

\* slip: the last existing candidate is taken
SelectLast(existing) == existing[Len(existing)]

\* "selected = existing[0]"
SelectFirst(existing) == existing[1]

PathInit ==
    /\ WorkersIdle
    /\ CountIdle
    /\ AppInit
    /\ SelIdle
    /\ MgrIdle
    /\ WaitIdle
    /\ StateIdle
    /\ ConfigIdle
    /\ AgentsIdle
    /\ StartIdle
    /\ ObserversIdle
    /\ LogIdle
    /\ fp_same_dir \in BOOLEAN
    /\ fp_files \in [1 .. 2 -> FileContents]
    /\ fp_same_dir => fp_files[2] = NoFile
    /\ fp_before = fp_files
    /\ fp_config_path = 0
    /\ fp_ignored = <<>>
    /\ fp_config = DEFAULT_CONFIG
    /\ fp_pc = "new"

\* __init__: "self.config_path = self._find_config_path()"
FindConfigPath ==
    /\ fp_pc = "new"
    /\ LET existing == Existing(fp_files)
       IN  IF existing # <<>>
           THEN /\ fp_config_path' = SelectFirst(existing)
                /\ fp_ignored' = SelectSeq(Tail(existing),
                                           LAMBDA p : p # SelectFirst(existing))
           ELSE /\ fp_config_path' = CandidatePath(1)
                /\ fp_ignored' = <<>>
    /\ fp_pc' = "found"
    /\ UNCHANGED <<fpOthers, stop_event, fp_same_dir, fp_files, fp_before, fp_config>>

\* __init__: "self.config = self._load_config()"
LoadFromPath ==
    /\ fp_pc = "found"
    /\ fp_config' = LoadConfig(fp_files[fp_config_path])
    /\ fp_pc' = "loaded"
    /\ UNCHANGED <<fpOthers, stop_event, fp_same_dir, fp_files, fp_before,
                   fp_config_path, fp_ignored>>

\* set, then save: the document replaces the file at config_path, or save
\* raises and no file changes
SetAndSave ==
    /\ fp_pc = "loaded"
    /\ \E v \in {"number_10", "string"} :
          /\ fp_config' = [fp_config EXCEPT !["extra"] = v]
          /\ \/ fp_files' = [fp_files EXCEPT ![fp_config_path] = CompleteFile(fp_config')]
             \/ UNCHANGED fp_files
    /\ fp_pc' = "saved"
    /\ UNCHANGED <<fpOthers, stop_event, fp_same_dir, fp_before, fp_config_path,
                   fp_ignored>>

PathNext ==
    \/ FindConfigPath
    \/ LoadFromPath
    \/ SetAndSave

PathSpec == PathInit /\ [][PathNext]_vars

\* the candidates that existed when the manager was made
ExistedBefore == {k \in 1 .. 2 : fp_before[CandidatePath(k)].kind # "missing"}

\* C24: the first existing candidate, base_dir/config.json before
\* code_dir/config.json, is the file loaded and saved to, every other existing
\* candidate is in ignored_config_paths; when none exists the first candidate
\* is selected and nothing is ignored.
C24_FirstCandidateWins ==
    fp_pc # "new" =>
        /\ ExistedBefore = {} => fp_config_path = 1 /\ fp_ignored = <<>>
        /\ ExistedBefore # {} =>
              /\ fp_config_path \in ExistedBefore
              /\ \A k \in ExistedBefore : fp_config_path <= k
              /\ \A k \in ExistedBefore :
                    CandidatePath(k) # fp_config_path =>
                        \E j \in 1 .. Len(fp_ignored) : fp_ignored[j] = k
              /\ \A j \in 1 .. Len(fp_ignored) :
                    fp_ignored[j] \in ExistedBefore /\ fp_ignored[j] # fp_config_path
        /\ fp_pc = "loaded" => fp_config = LoadConfig(fp_before[fp_config_path])
        /\ fp_pc = "saved" =>
              /\ fp_files[fp_config_path] \in
                    {CompleteFile(fp_config), fp_before[fp_config_path]}
              /\ \A p \in 1 .. 2 : p # fp_config_path => fp_files[p] = fp_before[p]

\* both candidates existed with different content, and a save has replaced
\* the first one only
C24_Witness ==
    /\ fp_pc = "saved"
    /\ fp_before[1].kind = "complete"
    /\ fp_before[2].kind = "complete"
    /\ fp_before[1] # fp_before[2]
    /\ fp_config_path = 1
    /\ fp_ignored = <<2>>
    /\ fp_files[1] = CompleteFile(fp_config)
    /\ fp_files[1] # fp_before[1]
    /\ fp_files[2] = fp_before[2]

\* C25: loading merges the file with the defaults: a key of the file
\* overrides the default, a key the file lacks has its default value; a
\* missing file or one that is not JSON gives exactly the defaults.
C25_LoadMergesWithDefaults ==
    fp_pc = "loaded" =>
        LET file == fp_before[fp_config_path]
        IN  IF file.kind = "complete"
            THEN \A k \in ConfigKeys :
                    fp_config[k] = IF file.data[k] # "absent" THEN file.data[k]
                                   ELSE DEFAULT_CONFIG[k]
            ELSE fp_config = DEFAULT_CONFIG

\* ===================================================== the counters of a batch
\* The units of one run_batch are followed one after the other; every
\* log_message(..., level="error") adds one to failure_count.
\* how _prepare_vote_session can end, with the error lines it logs:
\* create_driver fails under Selenium Manager (one line), create_driver and its
\* Selenium Manager fallback fail (two lines), the stop signal is found set
\* (none), driver.get or the document wait times out or raises (one line),
\* no selector is clickable (one line of _locate_vote_button and one of
\* _prepare_vote_session), a session is returned (none), a session is
\* returned after _create_temp_profile_dir failed (one line)
PrepareErrorLines ==
    [no_driver |-> 1, no_driver_twice |-> 2, stopped |-> 0, page_failed |-> 1,
     not_located |-> 2, ready |-> 0, ready_without_profile |-> 1]

PrepareOutcomes == DOMAIN PrepareErrorLines

\* how _complete_vote can end, with the error lines it logs: the click or the
\* click after the refresh succeeds (none), the refreshed page has no
\* clickable selector (one line of _locate_vote_button and one of
\* _complete_vote), the retry times out or raises otherwise (one line)
CompleteErrorLines ==
    [clicked |-> 0, retry_clicked |-> 0, retry_not_located |-> 2, retry_failed |-> 1]

CompleteOutcomes == DOMAIN CompleteErrorLines

CountInit ==
    /\ WorkersIdle
    /\ AppInit
    /\ SelIdle
    /\ MgrIdle
    /\ WaitIdle
    /\ StateIdle
    /\ ConfigIdle
    /\ AgentsIdle
    /\ StartIdle
    /\ ObserversIdle
    /\ LogIdle
    /\ PathIdle
    /\ CountIdle

\* stop_bot sets the stop signal while the batch runs
CountStop ==
    /\ ~stop_event
    /\ ct_pc # "returned"
    /\ stop_event' = TRUE
    /\ UNCHANGED <<ctOthers, ctVars>>

\* _prepare_vote_session for the next unit
CountPrepare ==
    /\ ct_pc = "prepare"
    /\ ct_done < MaxUnits
    /\ \E outcome \in PrepareOutcomes :
          /\ outcome = "stopped" => stop_event
          /\ stop_event => outcome \in {"stopped", "no_driver", "no_driver_twice"}
          /\ failure_count' = failure_count + PrepareErrorLines[outcome]
          /\ ct_session' = (outcome \in {"ready", "ready_without_profile"})
    /\ ct_pc' = "collect"
    /\ UNCHANGED <<ctOthers, stop_event, error_count, vote_count, ct_failed, ct_succeeded,
                   ct_done>>

\* run_batch takes the result of the unit: "if not session:
\* self.increment_error(); failures += 1", "if self._stop_event.is_set():
\* self._teardown_driver(driver); continue"
CountCollect ==
    /\ ct_pc = "collect"
    /\ IF ~ct_session
       THEN /\ error_count' = error_count + 1
            /\ ct_failed' = ct_failed + 1
            /\ ct_done' = ct_done + 1
            /\ ct_pc' = "prepare"
       ELSE IF stop_event
       THEN /\ ct_done' = ct_done + 1
            /\ ct_pc' = "prepare"
            /\ UNCHANGED <<error_count, ct_failed>>
       ELSE /\ ct_pc' = "click"
            /\ UNCHANGED <<error_count, ct_failed, ct_done>>
    /\ UNCHANGED <<ctOthers, stop_event, failure_count, vote_count, ct_succeeded,
                   ct_session>>

\* _complete_vote and the count of its result in run_batch
CountComplete ==
    /\ ct_pc = "click"
    /\ \E outcome \in CompleteOutcomes :
          /\ failure_count' = failure_count + CompleteErrorLines[outcome]
          /\ IF outcome \in {"clicked", "retry_clicked"}
             THEN /\ vote_count' = vote_count + 1
                  /\ ct_succeeded' = ct_succeeded + 1
                  /\ UNCHANGED <<error_count, ct_failed>>
             ELSE /\ error_count' = error_count + 1
                  /\ ct_failed' = ct_failed + 1
                  /\ UNCHANGED <<vote_count, ct_succeeded>>
    /\ ct_done' = ct_done + 1
    /\ ct_pc' = "prepare"
    /\ UNCHANGED <<ctOthers, stop_event, ct_session>>

\* the end of run_batch: "if successes == 0: self.log_message(..., level="error")"
CountReturn ==
    /\ ct_pc = "prepare"
    /\ ct_done >= 1
    /\ failure_count' = IF ct_succeeded = 0 THEN failure_count + 1 ELSE failure_count
    /\ ct_pc' = "returned"
    /\ UNCHANGED <<ctOthers, stop_event, error_count, vote_count, ct_failed, ct_succeeded,
                   ct_session, ct_done>>

CountNext ==
    \/ CountStop
    \/ CountPrepare
    \/ CountCollect
    \/ CountComplete
    \/ CountReturn

CountSpec == CountInit /\ [][CountNext]_vars

\* C26: each failed unit of a batch adds exactly one to error_count and
\* exactly one to failure_count, a successful unit adds to neither: between
\* two units both counters are the number of units that have failed.
C26_OncePerFailedUnit ==
    ct_pc = "prepare" =>
        /\ error_count = ct_failed
        /\ failure_count = ct_failed

\* ========================================================= the run_bot threads
\* start_bot and stop_bot run on the UI thread, one at a time; every start_bot
\* that passes its checks creates a thread that runs run_bot.  The checks of
\* start_bot other than "if self.is_running: return" are those of StartSpec
\* and pass here.
Workers == 1 .. MaxWorkers

\* the threads inside run_bot
Alive == {w \in Workers : wk_pc[w] \in {"head", "batch", "sleep", "finish"}}

WorkersInit ==
    /\ AppInit
    /\ SelIdle
    /\ MgrIdle
    /\ WaitIdle
    /\ StateIdle
    /\ ConfigIdle
    /\ AgentsIdle
    /\ StartIdle
    /\ ObserversIdle
    /\ LogIdle
    /\ PathIdle
    /\ CountIdle
    /\ WorkersIdle

\* start_bot: "if self.is_running: return", "self.is_running = True;
\* self._stop_event.clear()", "self.worker = threading.Thread(...);
\* self.worker.start()"
WorkersStartBot ==
    /\ wk_ui = "idle"
    /\ ~is_running
    /\ worker < MaxWorkers
    /\ is_running' = TRUE
    /\ stop_event' = FALSE
    /\ worker' = worker + 1
    /\ wk_pc' = [wk_pc EXCEPT ![worker + 1] = "head"]
    /\ UNCHANGED <<wkOthers, wk_ui, wk_stopped>>

\* stop_bot up to its join: "if not self.is_running: return",
\* "self.is_running = False; self._stop_event.set()"
WorkersStopBot ==
    /\ wk_ui = "idle"
    /\ is_running
    /\ is_running' = FALSE
    /\ stop_event' = TRUE
    /\ wk_stopped' = wk_stopped \cup Alive
    /\ wk_ui' = IF worker # 0 /\ worker \in Alive THEN "join" ELSE "idle"
    /\ UNCHANGED <<wkOthers, worker, wk_pc>>

\* "self.worker.join(timeout=1.0)" returns: the thread has ended, or the
\* second is over while the thread is still inside run_batch
JoinReturns ==
    /\ wk_ui = "join"
    /\ \/ worker \notin Alive
       \/ wk_pc[worker] = "batch"
    /\ wk_ui' = "idle"
    /\ UNCHANGED <<wkOthers, is_running, stop_event, worker, wk_pc, wk_stopped>>

\* "while not self._stop_event.is_set()": leave the loop or call run_batch
WorkerHead(w) ==
    /\ wk_pc[w] = "head"
    /\ wk_pc' = [wk_pc EXCEPT ![w] = IF stop_event THEN "finish" ELSE "batch"]
    /\ UNCHANGED <<wkOthers, is_running, stop_event, worker, wk_ui, wk_stopped>>

\* run_batch returns and run_bot goes to sleep
WorkerBatch(w) ==
    /\ wk_pc[w] = "batch"
    /\ wk_pc' = [wk_pc EXCEPT ![w] = "sleep"]
    /\ UNCHANGED <<wkOthers, is_running, stop_event, worker, wk_ui, wk_stopped>>

\* _sleep_with_checks: "if self._stop_event.is_set(): return False" and the
\* break in run_bot, or the end of the sleep and the next iteration
WorkerSleep(w) ==
    /\ wk_pc[w] = "sleep"
    /\ wk_pc' = [wk_pc EXCEPT ![w] = IF stop_event THEN "finish" ELSE "head"]
    /\ UNCHANGED <<wkOthers, is_running, stop_event, worker, wk_ui, wk_stopped>>

\* the end of run_bot: "self.is_running = False; self._cleanup_drivers()"
WorkerFinish(w) ==
    /\ wk_pc[w] = "finish"
    /\ is_running' = FALSE
    /\ wk_pc' = [wk_pc EXCEPT ![w] = "exited"]
    /\ UNCHANGED <<wkOthers, stop_event, worker, wk_ui, wk_stopped>>

WorkersNext ==
    \/ WorkersStartBot
    \/ WorkersStopBot
    \/ JoinReturns
    \/ \E w \in Workers : WorkerHead(w)
    \/ \E w \in Workers : WorkerBatch(w)
    \/ \E w \in Workers : WorkerSleep(w)
    \/ \E w \in Workers : WorkerFinish(w)

WorkersSpec == WorkersInit /\ [][WorkersNext]_vars

\* C28: at most one thread is inside run_bot at any time, and the stop signal
\* stays set as long as a thread that a stop_bot has signalled is inside
\* run_bot.
C28_AtMostOneWorker ==
    /\ Cardinality(Alive) <= 1
    /\ \A w \in wk_stopped : w \in Alive => stop_event

====
